---- MODULE Spec2Model ----
(***************************************************************************)
(* Model of the guide content updater (scripts/update-guide-content.js):   *)
(* the merge loops and the render loops of generateYogaTypesContent,       *)
(* generateYogaPosesContent, generateYogaBenefitsContent and               *)
(* generateYogaTipsContent.                                                *)
(*                                                                         *)
(* Representation of JavaScript values                                     *)
(*   - a name is a sequence of one-character strings, so that toLowerCase  *)
(*     is computed character by character;                                 *)
(*   - every other text (description, source name, benefit, tip) is a TLA+ *)
(*     string: Len is String.length and \o is string concatenation;        *)
(*   - an array is a sequence; a Set is the sequence of its elements in    *)
(*     insertion order (the order Array.from returns);                     *)
(*   - findIndex returns 0 where JavaScript returns -1.                    *)
(***************************************************************************)
EXTENDS Integers, Sequences, FiniteSets, TLC

VARIABLES
  pc,               \* the position of the program that is running
  section,          \* the generate* function that is running
  fed,              \* types/poses: the (item, source) pairs consumed so far
  arrived,          \* benefits/tips: the (key, text) pairs consumed so far
  yogaTypes,        \* generateYogaTypesContent: const yogaTypes = []
  posesByCategory,  \* generateYogaPosesContent: const posesByCategory = {...}
  benefits,         \* generateYogaBenefitsContent: const benefits = {...}
  tips,             \* generateYogaTipsContent: const tips = {...}
  rendered,         \* per rendered category, the list of display items
  unsafe,           \* escapeHtml: the argument
  escaped,          \* escapeHtml: the returned string
  sources,          \* generateSectionContent: the argument data
  content,          \* generateSectionContent: the returned content
  thrown,           \* generateSectionContent: the message of the Error thrown
  configured,       \* updateGuideContent: SECTIONS
  dataFiles,        \* updateGuideContent: the files <section>.json
  scrapedData,      \* updateGuideContent: const scrapedData = {}
  includes,         \* updateGuideContent: the files <section>.html
  index,            \* updateGuideContent: the position of the running loop
  generated,        \* the sections generateSectionContent was called for
  errors,           \* the messages written by console.error
  templateRuns,     \* the number of calls of updateGuideTemplate
  processor,        \* scraper: the process* function that is running
  page,             \* scraper: the elements of the page it is given
  cursor,           \* scraper: the position of the running each loop
  collected,        \* scraper: the records or buckets pushed so far
  argv,             \* cleanup-old-files: process.argv (the flags)
  files,            \* cleanup-old-files: the paths that exist under cwd
  step,             \* cleanup-old-files: the position in the list removed
  builds,           \* the number of times npm run build was run
  buildResult,      \* checkBuildIsWorking: the returned value
  answer,           \* the answer given to the confirmation prompt
  removed,          \* the paths unlinkSync and rm -rf deleted
  reported,         \* the paths console.log reported as 'Would remove'
  failures,         \* the removals that threw
  directories,      \* cleanup-old-files: the list executeCleanup iterates
  exitCode,         \* the exit code of the process
  sourceFiles,      \* generate-thumbnails: the files of sourceDir
  thumbnails,       \* generate-thumbnails: the files of thumbnailsDir
  imageFiles,       \* generateThumbnails: const imageFiles
  existingThumbnails, \* generateThumbnails: const existingThumbnails
  fileIndex,        \* generateThumbnails: the position of the for loop
  written,          \* the (run, file) pairs toFile wrote
  runs,             \* the number of runs of the script started
  failed,           \* the runs of the script that caught an error
  stored,           \* theme switcher: localStorage['mat-and-mind-theme']
  defaultTheme,     \* theme switcher: window.siteData.defaultTheme
  bodyTheme,        \* theme switcher: the body's data-theme attribute
  pending,          \* applyTheme: the images whose onload has not run
  requested,        \* the ids applyTheme was called with
  events,           \* the detail.theme of the themeChanged events
  loadErrors,       \* the number of theme images that failed to load
  browser,          \* scrapeYogaInfo: the puppeteer browser
  categoryIndex,    \* scrapeYogaInfo: the position of the loop over SOURCES
  sourceIndex,      \* scrapeYogaInfo: the position of the loop over sources
  results,          \* scrapeYogaInfo: const results = []
  attempts,         \* the (category, source, outcome) of the scrapeSource calls
  outputFiles,      \* the files of OUTPUT_DIR, name to content
  saved,            \* the names of the files written by this run
  writeError,       \* whether fs.writeFileSync threw in this run
  cacheFile,        \* scrapeSource: the content of the cache file of the source
  cacheBefore,      \* the content of the cache file when the call started
  useCache,         \* process.env.USE_CACHE
  fetched,          \* scrapeSource: let content
  tab,              \* the page opened by browser.newPage()
  trace,            \* the operations of the call, in order, each with its success
  callNo,           \* the number of the call of scrapeSource for the source
  returned,         \* what the call returned
  container,        \* whether the page has a #player element with a data-video-id
  api,              \* window.YT: absent, loading or loaded
  domLoaded,        \* whether DOMContentLoaded has been dispatched
  mainPlayer,       \* players.mainPlayer
  playerReady,      \* whether the onReady event of the player has fired
  listeners,        \* the controls that have a click listener
  playing,          \* whether the player state is PLAYING
  invoked,          \* the player methods invoked, in order
  userEvents,       \* the number of clicks and key presses so far
  bodyText,         \* extractBenefitTitle, extractTipTitle: text
  titleOf,          \* which of the two functions was called
  cardTitle         \* the returned title

\* the variables of each program
genVars == <<section, fed, arrived, yogaTypes, posesByCategory,
             benefits, tips, rendered>>
escVars == <<unsafe, escaped>>
callVars == <<sources, content, thrown>>
runVars == <<configured, dataFiles, scrapedData, includes, index, generated,
             errors, templateRuns>>

scrapeVars == <<processor, page, cursor, collected>>

cleanVars ==
  <<argv, files, step, builds, buildResult, answer, removed, reported,
    failures, directories, exitCode>>

thumbVars == <<sourceFiles, thumbnails, imageFiles, existingThumbnails,
    fileIndex, written, runs, failed>>

themeVars == <<stored, defaultTheme, bodyTheme, pending, requested, events, loadErrors>>

infoVars == <<browser, categoryIndex, sourceIndex, results, attempts,
    outputFiles, saved, writeError>>

sourceVars == <<cacheFile, cacheBefore, useCache, fetched, tab, trace,
    callNo, returned>>

playerVars == <<container, api, domLoaded, mainPlayer, playerReady,
    listeners, playing, invoked, userEvents>>

titleVars == <<bodyText, titleOf, cardTitle>>

vars == <<pc, genVars, escVars, callVars, runVars, scrapeVars, cleanVars,
    thumbVars, themeVars, infoVars, sourceVars, playerVars, titleVars>>

\* the variables of the programs other than the one that is running
notGen == <<escVars, callVars, runVars, scrapeVars, cleanVars, thumbVars,
    themeVars, infoVars, sourceVars, playerVars, titleVars>>
notEsc == <<genVars, callVars, runVars, scrapeVars, cleanVars, thumbVars,
    themeVars, infoVars, sourceVars, playerVars, titleVars>>
notCall == <<genVars, escVars, runVars, scrapeVars, cleanVars, thumbVars,
    themeVars, infoVars, sourceVars, playerVars, titleVars>>
notRun == <<genVars, escVars, callVars, scrapeVars, cleanVars, thumbVars,
    themeVars, infoVars, sourceVars, playerVars, titleVars>>
notScrape == <<genVars, escVars, callVars, runVars, cleanVars, thumbVars,
    themeVars, infoVars, sourceVars, playerVars, titleVars>>
notClean == <<genVars, escVars, callVars, runVars, scrapeVars, thumbVars,
    themeVars, infoVars, sourceVars, playerVars, titleVars>>
notThumb == <<genVars, escVars, callVars, runVars, scrapeVars, cleanVars,
    themeVars, infoVars, sourceVars, playerVars, titleVars>>
notTheme == <<genVars, escVars, callVars, runVars, scrapeVars, cleanVars,
    thumbVars, infoVars, sourceVars, playerVars, titleVars>>
notInfo == <<genVars, escVars, callVars, runVars, scrapeVars, cleanVars,
    thumbVars, themeVars, sourceVars, playerVars, titleVars>>
notSource == <<genVars, escVars, callVars, runVars, scrapeVars, cleanVars,
    thumbVars, themeVars, infoVars, playerVars, titleVars>>
notPlayer == <<genVars, escVars, callVars, runVars, scrapeVars, cleanVars,
    thumbVars, themeVars, infoVars, sourceVars, titleVars>>
notTitle == <<genVars, escVars, callVars, runVars, scrapeVars, cleanVars,
    thumbVars, themeVars, infoVars, sourceVars, playerVars>>

\* the value of a variable that holds nothing yet, and of an array read
\* outside its bounds
Undefined == "<undefined>"


\* the variables of a program that is not the one running
GenIdle ==
  /\ section = Undefined /\ fed = <<>> /\ arrived = {} /\ yogaTypes = <<>>
  /\ posesByCategory = <<>> /\ benefits = <<>> /\ tips = <<>>
  /\ rendered = <<>>
EscIdle == unsafe = <<>> /\ escaped = <<>>
CallIdle == sources = <<>> /\ content = <<>> /\ thrown = ""
RunIdle ==
  /\ configured = <<>> /\ dataFiles = <<>> /\ scrapedData = <<>>
  /\ includes = <<>> /\ index = 0 /\ generated = {} /\ errors = <<>>
  /\ templateRuns = 0
ScrapeIdle ==
  processor = "" /\ page = <<>> /\ cursor = 0 /\ collected = <<>>

\* the prompt was not answered
NoAnswer == [defined |-> FALSE, value |-> <<>>]

\* checkBuildIsWorking was not called
NotChecked == [defined |-> FALSE, value |-> FALSE]

\* cleanup-old-files.js is not running
CleanIdle ==
  /\ argv = {} /\ files = {} /\ step = 0 /\ builds = 0
  /\ buildResult = NotChecked /\ answer = NoAnswer /\ removed = <<>>
  /\ reported = <<>> /\ failures = 0 /\ directories = <<>>
  /\ exitCode = 0

\* generate-thumbnails.js is not running
ThumbIdle ==
  /\ sourceFiles = <<>> /\ thumbnails = {} /\ imageFiles = <<>>
  /\ existingThumbnails = {} /\ fileIndex = 0 /\ written = <<>>
  /\ runs = 0 /\ failed = {}

\* the theme switcher is not loaded
ThemeIdle ==
  /\ stored = Undefined /\ defaultTheme = Undefined /\ bodyTheme = Undefined
  /\ pending = <<>> /\ requested = <<>> /\ events = <<>>
  /\ loadErrors = 0

\* scrapeYogaInfo is not running
InfoIdle ==
  /\ browser = "none" /\ categoryIndex = 0 /\ sourceIndex = 0
  /\ results = <<>> /\ attempts = <<>> /\ outputFiles = <<>>
  /\ saved = <<>> /\ writeError = FALSE

\* scrapeSource is not running
SourceIdle ==
  /\ cacheFile = "" /\ cacheBefore = "" /\ useCache = "" /\ fetched = ""
  /\ tab = "none" /\ trace = <<>> /\ callNo = 0 /\ returned = ""

\* the video page is not open
PlayerIdle ==
  /\ container = FALSE /\ api = "absent" /\ domLoaded = FALSE
  /\ mainPlayer = "undefined" /\ playerReady = FALSE /\ listeners = {}
  /\ playing = FALSE /\ invoked = <<>> /\ userEvents = 0

\* no title is being extracted
TitleIdle ==
  /\ bodyText = <<>> /\ titleOf = "" /\ cardTitle = <<>>

\* every program but the named ones is not running
IdleExcept(programs) ==
  /\ IF "Gen" \in programs THEN TRUE ELSE GenIdle
  /\ IF "Esc" \in programs THEN TRUE ELSE EscIdle
  /\ IF "Call" \in programs THEN TRUE ELSE CallIdle
  /\ IF "Run" \in programs THEN TRUE ELSE RunIdle
  /\ IF "Scrape" \in programs THEN TRUE ELSE ScrapeIdle
  /\ IF "Clean" \in programs THEN TRUE ELSE CleanIdle
  /\ IF "Thumb" \in programs THEN TRUE ELSE ThumbIdle
  /\ IF "Theme" \in programs THEN TRUE ELSE ThemeIdle
  /\ IF "Info" \in programs THEN TRUE ELSE InfoIdle
  /\ IF "Source" \in programs THEN TRUE ELSE SourceIdle
  /\ IF "Player" \in programs THEN TRUE ELSE PlayerIdle
  /\ IF "Title" \in programs THEN TRUE ELSE TitleIdle

(***************************************************************************)
(* Bounds of the model: the number of items of types.json and poses.json   *)
(* that are merged, and the number of distinct (key, text) pairs of        *)
(* benefits.json and tips.json that are added.                             *)
(***************************************************************************)
MaxTypeItems == 2
MaxPoseItems == 4
MaxBenefitItems == 5
MaxTipItems == 4

(***************************************************************************)
(* JavaScript primitives used by the script.                               *)
(***************************************************************************)
UpperChars == <<"A","B","C","D","E","F","G","H","I","J","K","L","M",
                "N","O","P","Q","R","S","T","U","V","W","X","Y","Z">>
LowerChars == <<"a","b","c","d","e","f","g","h","i","j","k","l","m",
                "n","o","p","q","r","s","t","u","v","w","x","y","z">>

\* the lower-case letter of every upper-case letter
LowerOf ==
  [c \in {UpperChars[i] : i \in DOMAIN UpperChars} |->
     LowerChars[CHOOSE i \in DOMAIN UpperChars : UpperChars[i] = c]]

\* one character of String.prototype.toLowerCase
LowerChar(c) == IF c \in DOMAIN LowerOf THEN LowerOf[c] ELSE c

\* name.toLowerCase()
ToLowerCase(name) == [i \in 1..Len(name) |-> LowerChar(name[i])]

\* truthiness of a string: only the empty string is falsy
Truthy(s) == s # ""

\* findIndex comparing the names as they are, without toLowerCase
FindIndexCaseSensitive(arr, name) ==
  LET matches == {i \in DOMAIN arr : arr[i].name = name} IN
  IF matches = {} THEN 0
  ELSE CHOOSE i \in matches : \A j \in matches : i <= j

\* arr.findIndex(t => t.name.toLowerCase() === name.toLowerCase()); 0 for -1
FindIndex(arr, name) ==
  LET matches == {i \in DOMAIN arr : ToLowerCase(arr[i].name) = ToLowerCase(name)} IN
  IF matches = {} THEN 0
  ELSE CHOOSE i \in matches : \A j \in matches : i <= j

Range(s) == {s[i] : i \in DOMAIN s}

\* set.add(x) on a Set kept in insertion order
SetAdd(set, x) == IF x \in Range(set) THEN set ELSE Append(set, x)

RECURSIVE SetAddAll(_, _)
\* items.forEach(x => set.add(x))
SetAddAll(set, items) ==
  IF items = <<>> THEN set
  ELSE SetAddAll(SetAdd(set, Head(items)), Tail(items))

\* Array.from(new Set(existing)), then every item added
MergeSet(existing, items) == SetAddAll(SetAddAll(<<>>, existing), items)

RECURSIVE FilterBoolean(_)
\* arr.filter(Boolean) on an array of strings
FilterBoolean(arr) ==
  IF arr = <<>> THEN <<>>
  ELSE IF Truthy(Head(arr)) THEN <<Head(arr)>> \o FilterBoolean(Tail(arr))
       ELSE FilterBoolean(Tail(arr))

RECURSIVE Join(_, _)
\* arr.join(sep)
Join(arr, sep) ==
  IF arr = <<>> THEN ""
  ELSE IF Len(arr) = 1 THEN arr[1]
       ELSE arr[1] \o sep \o Join(Tail(arr), sep)

\* [existing, incoming].filter(Boolean).join(', ')
AddSourceAttribution(existing, incoming) ==
  Join(FilterBoolean(<<existing, incoming>>), ", ")

\* arr.slice(0, n)
Slice(arr, n) == SubSeq(arr, 1, IF Len(arr) < n THEN Len(arr) ELSE n)

(***************************************************************************)
(* generateYogaTypesContent: one iteration of the combine loop.            *)
(***************************************************************************)
\* if (item.description && item.description.length > existing.description.length)
TypesDescription(existing, item) ==
  IF Truthy(item.description) /\ Len(item.description) > Len(existing.description)
    THEN item.description
    ELSE existing.description

\* the incoming benefits replacing the existing ones instead of joining them
TypesBenefitsOverwrite(existing, item) == MergeSet(<<>>, item.benefits)

\* new Set(existing.benefits || []), item.benefits.forEach(add), Array.from
\* (every item of the input carries a benefits and a suitable_for array)
TypesBenefits(existing, item) == MergeSet(existing.benefits, item.benefits)

\* new Set(existing.suitable_for || []), forEach(add), Array.from
TypesSuitableFor(existing, item) ==
  MergeSet(existing.suitable_for, item.suitable_for)

\* yogaTypes.push({...item, source: source.source})
TypesNewRecord(item, source) ==
  [name         |-> item.name,
   description  |-> item.description,
   benefits     |-> item.benefits,
   suitable_for |-> item.suitable_for,
   source       |-> source]

TypesMerge(types, item, source) ==
  LET existingIndex == FindIndex(types, item.name) IN
  IF existingIndex = 0
    THEN Append(types, TypesNewRecord(item, source))
    ELSE LET e == types[existingIndex] IN
         [types EXCEPT ![existingIndex] =
            [name         |-> e.name,
             description  |-> TypesDescription(e, item),
             benefits     |-> TypesBenefits(e, item),
             suitable_for |-> TypesSuitableFor(e, item),
             source       |-> AddSourceAttribution(e.source, source)]]

(***************************************************************************)
(* generateYogaPosesContent: one iteration of the combine loop.            *)
(***************************************************************************)
\* the keys of posesByCategory, in Object.entries order
PoseCategories == <<"standing", "seated", "backbends", "inversions">>

EmptyPosesByCategory ==
  [standing |-> <<>>, seated |-> <<>>, backbends |-> <<>>, inversions |-> <<>>]

\* const category = pose.category || 'other'
PoseCategoryOf(pose) == IF Truthy(pose.category) THEN pose.category ELSE "other"

\* the comparison written >=: on a tie the later description wins
PosesDescriptionLastWins(existing, pose) ==
  IF Truthy(pose.description) /\ Len(pose.description) >= Len(existing.description)
    THEN pose.description
    ELSE existing.description

\* if (pose.description && pose.description.length > existing.description.length)
PosesDescription(existing, pose) ==
  IF Truthy(pose.description) /\ Len(pose.description) > Len(existing.description)
    THEN pose.description
    ELSE existing.description

\* if (pose.image_url && !existing.image_url) existing.image_url = pose.image_url
PosesImageUrl(existing, pose) ==
  IF Truthy(pose.image_url) /\ ~Truthy(existing.image_url)
    THEN pose.image_url
    ELSE existing.image_url

\* posesByCategory[category].push({...pose, source: source.source})
PosesNewRecord(pose, source) ==
  [name        |-> pose.name,
   description |-> pose.description,
   image_url   |-> pose.image_url,
   category    |-> pose.category,
   source      |-> source]

\* the bucket the findIndex of the poses loop searches
PosesBucket(byCategory, category) == byCategory[category]

PosesMerge(byCategory, pose, source) ==
  LET category == PoseCategoryOf(pose) IN
  IF category \notin DOMAIN byCategory
    THEN byCategory
    ELSE LET existingIndex == FindIndex(PosesBucket(byCategory, category), pose.name) IN
         IF existingIndex = 0
           THEN [byCategory EXCEPT ![category] =
                   Append(@, PosesNewRecord(pose, source))]
           ELSE LET e == byCategory[category][existingIndex] IN
                [byCategory EXCEPT ![category][existingIndex] =
                   [name        |-> e.name,
                    description |-> PosesDescription(e, pose),
                    image_url   |-> PosesImageUrl(e, pose),
                    category    |-> e.category,
                    source      |-> AddSourceAttribution(e.source, source)]]

(***************************************************************************)
(* generateYogaPosesContent: the three display items of one category.      *)
(***************************************************************************)
PoseMinCount == 3

PosePlaceholders ==
  << [name |-> <<"M","o","u","n","t","a","i","n"," ","P","o","s","e">>,
      description |-> "A foundational standing pose that teaches proper alignment."],
     [name |-> <<"E","a","s","y"," ","P","o","s","e">>,
      description |-> "A comfortable seated position for meditation and breathing."],
     [name |-> <<"C","o","b","r","a"," ","P","o","s","e">>,
      description |-> "A gentle backbend that strengthens the spine and opens the chest."],
     [name |-> <<"D","o","w","n","w","a","r","d","-","F","a","c","i","n","g"," ","D","o","g">>,
      description |-> "An inversion that stretches the entire back of the body."] >>

\* Pick an appropriate placeholder based on category
PosePlaceholder(category) ==
  IF category = "standing" THEN PosePlaceholders[1]
  ELSE IF category = "seated" THEN PosePlaceholders[2]
  ELSE IF category = "backbends" THEN PosePlaceholders[3]
  ELSE PosePlaceholders[4]

\* the placeholder loop written as an "if": at most one placeholder is pushed
PadPosesOnce(topPoses, category) ==
  IF Len(topPoses) < PoseMinCount
    THEN Append(topPoses, PosePlaceholder(category))
    ELSE topPoses

RECURSIVE PadPoses(_, _)
\* while (topPoses.length < 3) topPoses.push(placeholder)
PadPoses(topPoses, category) ==
  IF Len(topPoses) < PoseMinCount
    THEN PadPoses(Append(topPoses, PosePlaceholder(category)), category)
    ELSE topPoses

\* const topPoses = poses.slice(0, 3), then the placeholder loop
TopPoses(poses, category) == PadPoses(Slice(poses, PoseMinCount), category)

(***************************************************************************)
(* generateYogaBenefitsContent.                                            *)
(***************************************************************************)
BenefitMinCount == 4

\* the labels rendered, in the order of the category loop
BenefitLabels == <<"physical", "mental", "lifestyle">>

EmptyBenefits == [physical |-> <<>>, mental |-> <<>>, lifestyle |-> <<>>]

\* the general texts added to the mental bucket
BenefitLabelOfGeneralAsMental(key) ==
  IF key = "physical" THEN "physical" ELSE "mental"

\* the bucket a text of source.data[key] is added to
BenefitLabelOf(key) ==
  IF key = "physical" THEN "physical"
  ELSE IF key = "mental" THEN "mental"
  ELSE "lifestyle"

\* source.data[key].forEach(benefit => benefits[label].add(benefit)), one text;
\* only the keys physical, mental and general are read
BenefitsMerge(buckets, key, text) ==
  IF key \in {"physical", "mental", "general"}
    THEN [buckets EXCEPT ![BenefitLabelOf(key)] = SetAdd(@, text)]
    ELSE buckets

BenefitPlaceholders ==
  [physical  |-> << "Improved flexibility and range of motion in joints.",
                    "Increased muscle strength and tone.",
                    "Better posture and body alignment.",
                    "Enhanced balance and stability." >>,
   mental    |-> << "Reduced stress and anxiety levels.",
                    "Improved focus and concentration.",
                    "Enhanced mood and emotional regulation.",
                    "Better sleep quality and reduced insomnia." >>,
   lifestyle |-> << "Healthier habits and mindful eating.",
                    "Better energy management throughout the day.",
                    "Improved breathing patterns and lung function.",
                    "Enhanced body awareness and mindfulness." >>]

\* table[i] with a JavaScript (0-based) index
ArrayAt(table, i) == IF i + 1 \in DOMAIN table THEN table[i + 1] ELSE Undefined

\* the element pushed by one iteration of the benefits placeholder loop
BenefitPlaceholderFor(category, length) ==
  ArrayAt(BenefitPlaceholders[category], length)

RECURSIVE PadBenefits(_, _)
\* while (categoryBenefits.length < 4)
\*   categoryBenefits.push(placeholders[category][categoryBenefits.length])
PadBenefits(categoryBenefits, category) ==
  IF Len(categoryBenefits) < BenefitMinCount
    THEN PadBenefits(Append(categoryBenefits,
                            BenefitPlaceholderFor(category, Len(categoryBenefits))),
                     category)
    ELSE categoryBenefits

\* slice(-4) instead of slice(0, 4): the last four records are kept
CategoryBenefitsLast(bucket, category) ==
  PadBenefits(SubSeq(bucket,
                     IF Len(bucket) > BenefitMinCount
                       THEN Len(bucket) - BenefitMinCount + 1 ELSE 1,
                     Len(bucket)),
              category)

\* Array.from(benefits[category]).slice(0, 4), then the placeholder loop
CategoryBenefits(bucket, category) ==
  PadBenefits(Slice(bucket, BenefitMinCount), category)

(***************************************************************************)
(* generateYogaTipsContent.                                                *)
(***************************************************************************)
TipMinCount == 3

\* the [dataCategory, uiCategory] pairs of the category loop (both equal)
TipLabels == <<"beginners", "mindful", "props">>

EmptyTips == [beginners |-> <<>>, mindful |-> <<>>, props |-> <<>>]

\* the bucket a text of source.data[key] is added to
TipLabelOf(key) ==
  IF key = "beginners" THEN "beginners"
  ELSE IF key = "practice" THEN "mindful"
  ELSE "props"

\* source.data[key].forEach(tip => tips[label].add(tip)), one text;
\* only the keys beginners, practice and props are read
TipsMerge(buckets, key, text) ==
  IF key \in {"beginners", "practice", "props"}
    THEN [buckets EXCEPT ![TipLabelOf(key)] = SetAdd(@, text)]
    ELSE buckets

TipPlaceholders ==
  [beginners |-> << "Start with beginner-friendly classes to learn proper alignment.",
                    "Don't push beyond your comfort zone; listen to your body.",
                    "Consistency is more important than intensity; practice regularly." >>,
   mindful   |-> << "Focus on your breath throughout your practice.",
                    "Set an intention at the beginning of each session.",
                    "Stay present by continually bringing your attention back to your mat." >>,
   props     |-> << "Yoga blocks help bring the floor closer in forward folds.",
                    "Straps extend your reach in poses where flexibility is limited.",
                    "A dedicated yoga space helps establish a consistent practice routine." >>]

\* the placeholder index counting from the first table entry after one
\* real record or more: placeholders[dataCategory][0] is pushed first
TipPlaceholderFromStart(category, length) ==
  ArrayAt(TipPlaceholders[category], IF length > 0 THEN length - 1 ELSE 0)

\* the element pushed by one iteration of the tips placeholder loop
TipPlaceholderFor(category, length) ==
  ArrayAt(TipPlaceholders[category], length)

RECURSIVE PadTips(_, _)
\* while (categoryTips.length < 3)
\*   categoryTips.push(placeholders[dataCategory][categoryTips.length])
PadTips(categoryTips, category) ==
  IF Len(categoryTips) < TipMinCount
    THEN PadTips(Append(categoryTips,
                        TipPlaceholderFor(category, Len(categoryTips))),
                 category)
    ELSE categoryTips

\* Array.from(tips[dataCategory]).slice(0, 3), then the placeholder loop
CategoryTips(bucket, category) == PadTips(Slice(bucket, TipMinCount), category)

(***************************************************************************)
(* The inputs: the records of the scraped data files.                      *)
(***************************************************************************)
Sections == {"types", "poses", "benefits", "tips"}

\* source.source
SourceNames == {"YJ", "YA"}

Yin    == <<"Y","i","n">>
YIN    == <<"Y","I","N">>
Hatha  == <<"H","a","t","h","a">>
TypeNames == {Yin, YIN, Hatha}

\* the benefits and suitable_for lists an item carries
TypeLists ==
  {[benefits |-> <<"p", "p">>, suitable_for |-> <<"s">>],
   [benefits |-> <<"q", "p">>, suitable_for |-> <<"t", "s">>]}

\* the items of source.data in types.json
TypeItems ==
  {[name |-> n, description |-> d,
    benefits |-> l.benefits, suitable_for |-> l.suitable_for] :
      n \in TypeNames, d \in {"ab", "cd", "abcd"}, l \in TypeLists}

Tree  == <<"T","r","e","e">>
TREE  == <<"T","R","E","E">>
Chair == <<"C","h","a","i","r">>
Eagle == <<"E","a","g","l","e">>
Crow  == <<"C","r","o","w">>

StandingPose(n, d) ==
  [name |-> n, description |-> d, image_url |-> "", category |-> "standing"]

\* the (pose, source) pairs of poses.json
PoseInputs ==
  {[item |-> StandingPose(Tree, "a"), source |-> "YJ"],
   [item |-> StandingPose(TREE, "ab"), source |-> "YA"],
   [item |-> StandingPose(Tree, "cd"), source |-> "YJ"],
   [item |-> StandingPose(Chair, "ab"), source |-> "YJ"],
   [item |-> StandingPose(Eagle, "ab"), source |-> "YJ"],
   [item |-> StandingPose(Crow, "ab"), source |-> "YJ"],
   [item |-> [name |-> Tree, description |-> "ab", image_url |-> "t.jpg",
              category |-> "seated"], source |-> "YJ"],
   [item |-> [name |-> Crow, description |-> "ab", image_url |-> "",
              category |-> "other"], source |-> "YJ"],
   [item |-> [name |-> Crow, description |-> "", image_url |-> "",
              category |-> ""], source |-> "YJ"]}

\* the (key, text) pairs of source.data in benefits.json
BenefitTexts == {"b1", "b2", "b3", "b4", "b5"}
BenefitInputs ==
  ({"general"} \X BenefitTexts) \cup ({"physical", "mental"} \X {"b1", "b2"})

\* the (key, text) pairs of source.data in tips.json
TipTexts == {"t1", "t2", "t3", "t4"}
TipInputs ==
  ({"practice"} \X TipTexts) \cup ({"beginners", "props"} \X {"t1", "t2"})

(***************************************************************************)
(* The state machine: one generate* call per behaviour.                    *)
(***************************************************************************)
Init ==
  /\ section \in Sections
  /\ pc = "merge"
  /\ fed = <<>>
  /\ arrived = {}
  /\ yogaTypes = <<>>
  /\ posesByCategory = EmptyPosesByCategory
  /\ benefits = EmptyBenefits
  /\ tips = EmptyTips
  /\ rendered = <<>>
  /\ IdleExcept({"Gen"})

\* generateYogaTypesContent: the body of "for (const item of source.data)"
TypesStep ==
  /\ section = "types" /\ pc = "merge" /\ Len(fed) < MaxTypeItems
  /\ \E item \in TypeItems, source \in SourceNames :
       /\ yogaTypes' = TypesMerge(yogaTypes, item, source)
       /\ fed' = Append(fed, [item |-> item, source |-> source])
  /\ UNCHANGED <<section, pc, arrived, posesByCategory, benefits, tips, rendered>>
  /\ UNCHANGED notGen

\* generateYogaPosesContent: the body of "for (const pose of source.data)"
PosesStep ==
  /\ section = "poses" /\ pc = "merge" /\ Len(fed) < MaxPoseItems
  /\ \E in \in PoseInputs :
       /\ posesByCategory' = PosesMerge(posesByCategory, in.item, in.source)
       /\ fed' = Append(fed, in)
  /\ UNCHANGED <<section, pc, arrived, yogaTypes, benefits, tips, rendered>>
  /\ UNCHANGED notGen

\* generateYogaPosesContent: the loop over Object.entries(posesByCategory)
PosesRender ==
  /\ section = "poses" /\ pc = "merge"
  /\ rendered' = [c \in Range(PoseCategories) |-> TopPoses(posesByCategory[c], c)]
  /\ pc' = "done"
  /\ UNCHANGED <<section, fed, arrived, yogaTypes, posesByCategory,
                 benefits, tips>>
  /\ UNCHANGED notGen

\* generateYogaBenefitsContent: one callback of source.data[key].forEach
BenefitsStep ==
  /\ section = "benefits" /\ pc = "merge"
  /\ \E in \in BenefitInputs :
       /\ Cardinality(arrived \cup {in}) <= MaxBenefitItems
       /\ benefits' = BenefitsMerge(benefits, in[1], in[2])
       /\ arrived' = arrived \cup {in}
  /\ UNCHANGED <<section, pc, fed, yogaTypes, posesByCategory, tips, rendered>>
  /\ UNCHANGED notGen

\* generateYogaBenefitsContent: the loop over ['physical', 'mental', 'lifestyle']
BenefitsRender ==
  /\ section = "benefits" /\ pc = "merge"
  /\ rendered' = [c \in Range(BenefitLabels) |-> CategoryBenefits(benefits[c], c)]
  /\ pc' = "done"
  /\ UNCHANGED <<section, fed, arrived, yogaTypes, posesByCategory,
                 benefits, tips>>
  /\ UNCHANGED notGen

\* generateYogaTipsContent: one callback of source.data[key].forEach
TipsStep ==
  /\ section = "tips" /\ pc = "merge"
  /\ \E in \in TipInputs :
       /\ Cardinality(arrived \cup {in}) <= MaxTipItems
       /\ tips' = TipsMerge(tips, in[1], in[2])
       /\ arrived' = arrived \cup {in}
  /\ UNCHANGED <<section, pc, fed, yogaTypes, posesByCategory, benefits, rendered>>
  /\ UNCHANGED notGen

\* generateYogaTipsContent: the loop over the three [dataCategory, uiCategory]
TipsRender ==
  /\ section = "tips" /\ pc = "merge"
  /\ rendered' = [c \in Range(TipLabels) |-> CategoryTips(tips[c], c)]
  /\ pc' = "done"
  /\ UNCHANGED <<section, fed, arrived, yogaTypes, posesByCategory,
                 benefits, tips>>
  /\ UNCHANGED notGen

Next ==
  \/ TypesStep
  \/ PosesStep
  \/ PosesRender
  \/ BenefitsStep
  \/ BenefitsRender
  \/ TipsStep
  \/ TipsRender

Spec == Init /\ [][Next]_vars

(***************************************************************************)
(* Vocabulary of the properties.                                           *)
(***************************************************************************)
Reverse(s) == [i \in 1..Len(s) |-> s[Len(s) + 1 - i]]

IsDuplicateFree(s) == \A i, j \in DOMAIN s : s[i] = s[j] => i = j

RECURSIVE TypesFold(_, _)
\* the combine loop of generateYogaTypesContent run over a whole input
TypesFold(types, inputs) ==
  IF inputs = <<>> THEN types
  ELSE TypesFold(TypesMerge(types, Head(inputs).item, Head(inputs).source),
                 Tail(inputs))

RECURSIVE PosesFold(_, _)
\* the combine loop of generateYogaPosesContent run over a whole input
PosesFold(byCategory, inputs) ==
  IF inputs = <<>> THEN byCategory
  ELSE PosesFold(PosesMerge(byCategory, Head(inputs).item, Head(inputs).source),
                 Tail(inputs))

\* the merged type of a lower-cased name (only used where there is one)
TypeOf(types, key) ==
  types[CHOOSE i \in DOMAIN types : ToLowerCase(types[i].name) = key]

\* the positions of the consumed inputs that carry a given lower-cased name
TypeInputsOf(key) == {k \in DOMAIN fed : ToLowerCase(fed[k].item.name) = key}

\* ... and, for poses, that fall into a given category as well
PoseInputsOf(category, key) ==
  {k \in DOMAIN fed : /\ ToLowerCase(fed[k].item.name) = key
                      /\ fed[k].item.category = category}

\* all merged poses, whatever their category
AllPoses ==
  {<<c, i>> \in Range(PoseCategories) \X (1..MaxPoseItems + 1) :
      i \in DOMAIN posesByCategory[c]}

RECURSIVE FirstSeen(_, _)
\* the distinct source names of the inputs at the given positions, first first
FirstSeen(positions, upTo) ==
  IF upTo = 0 THEN <<>>
  ELSE LET before == FirstSeen(positions, upTo - 1) IN
       IF upTo \in positions /\ fed[upTo].source \notin Range(before)
         THEN Append(before, fed[upTo].source)
         ELSE before

\* the description of greatest length at the given positions, the first on ties
FirstLongest(positions) ==
  fed[CHOOSE k \in positions :
        /\ \A j \in positions : Len(fed[j].item.description) <= Len(fed[k].item.description)
        /\ \A j \in positions :
             j < k => Len(fed[j].item.description) < Len(fed[k].item.description)
     ].item.description

(***************************************************************************)
(* C1  Merge idempotence (types merge): from every merge state, feeding a  *)
(* source record twice in a row leaves the merged record of its name with  *)
(* the same description, benefits set, suitable_for set and attribution    *)
(* string as feeding it once.                                              *)
(***************************************************************************)
C1_MergeIdempotent ==
  (/\ section = "types"
   /\ Len(fed) >= 2
   /\ fed[Len(fed)] = fed[Len(fed) - 1]) =>
    LET key   == ToLowerCase(fed[Len(fed)].item.name)
        once  == TypeOf(TypesFold(<<>>, SubSeq(fed, 1, Len(fed) - 1)), key)
        twice == TypeOf(yogaTypes, key)
    IN /\ twice.description = once.description
       /\ Range(twice.benefits) = Range(once.benefits)
       /\ Range(twice.suitable_for) = Range(once.suitable_for)
       /\ twice.source = once.source

(***************************************************************************)
(* C2  Source attribution (types and poses merge): the attribution string  *)
(* of every merged record lists each contributing source name once, in     *)
(* first-seen order, joined by ", ".                                       *)
(***************************************************************************)
C2_SourceListedOnce ==
  /\ section = "types" =>
       \A i \in DOMAIN yogaTypes :
         yogaTypes[i].source =
           Join(FirstSeen(TypeInputsOf(ToLowerCase(yogaTypes[i].name)), Len(fed)), ", ")
  /\ section = "poses" =>
       \A p \in AllPoses :
         LET pose == posesByCategory[p[1]][p[2]] IN
         pose.source =
           Join(FirstSeen(PoseInputsOf(p[1], ToLowerCase(pose.name)), Len(fed)), ", ")

(***************************************************************************)
(* C3  One merged record per lower-cased name.                             *)
(* As claimed: no two merged types share a lower-cased name, and no two    *)
(* merged poses of any categories share a lower-cased name.                *)
(***************************************************************************)
C3_OnePerNameAcrossCategories ==
  /\ \A i, j \in DOMAIN yogaTypes :
       ToLowerCase(yogaTypes[i].name) = ToLowerCase(yogaTypes[j].name) => i = j
  /\ section = "poses" =>
       \A p, q \in AllPoses :
         ToLowerCase(posesByCategory[p[1]][p[2]].name)
           = ToLowerCase(posesByCategory[q[1]][q[2]].name) => p = q

(***************************************************************************)
(* C3 as amended: the types merge holds exactly one record per lower-cased *)
(* name fed, and the poses merge exactly one record per tracked category   *)
(* and lower-cased name fed to that category; a merged record carries the  *)
(* name of the first input of its key and only data of inputs of its key.  *)
(***************************************************************************)
C3_OnePerNamePerCategory ==
  /\ section = "types" =>
       /\ \A i, j \in DOMAIN yogaTypes :
            ToLowerCase(yogaTypes[i].name) = ToLowerCase(yogaTypes[j].name) => i = j
       /\ {ToLowerCase(yogaTypes[i].name) : i \in DOMAIN yogaTypes}
            = {ToLowerCase(fed[k].item.name) : k \in DOMAIN fed}
       /\ \A i \in DOMAIN yogaTypes :
            LET from == TypeInputsOf(ToLowerCase(yogaTypes[i].name)) IN
            /\ yogaTypes[i].name = fed[CHOOSE k \in from : \A j \in from : k <= j].item.name
            /\ yogaTypes[i].description \in {fed[k].item.description : k \in from}
            /\ Range(yogaTypes[i].benefits)
                 = UNION {Range(fed[k].item.benefits) : k \in from}
  /\ section = "poses" =>
       /\ \A p, q \in AllPoses :
            (/\ p[1] = q[1]
             /\ ToLowerCase(posesByCategory[p[1]][p[2]].name)
                  = ToLowerCase(posesByCategory[q[1]][q[2]].name)) => p = q
       /\ {<<p[1], ToLowerCase(posesByCategory[p[1]][p[2]].name)>> : p \in AllPoses}
            = {<<fed[k].item.category, ToLowerCase(fed[k].item.name)>> :
                 k \in {j \in DOMAIN fed : fed[j].item.category \in Range(PoseCategories)}}
       /\ \A p \in AllPoses :
            LET pose == posesByCategory[p[1]][p[2]]
                from == PoseInputsOf(p[1], ToLowerCase(pose.name))
            IN /\ pose.name = fed[CHOOSE k \in from : \A j \in from : k <= j].item.name
               /\ pose.description \in {fed[k].item.description : k \in from}

\* the same pose name was fed to two categories and twice to one of them
C3_Witness ==
  /\ section = "poses"
  /\ \E p, q \in AllPoses :
       /\ p[1] # q[1]
       /\ ToLowerCase(posesByCategory[p[1]][p[2]].name)
            = ToLowerCase(posesByCategory[q[1]][q[2]].name)
       /\ Cardinality(PoseInputsOf(p[1], ToLowerCase(posesByCategory[p[1]][p[2]].name))) >= 2

(***************************************************************************)
(* C4  Description longest-wins (types merge, poses merge per category):   *)
(* the merged description is the longest description supplied under the    *)
(* record's key, the first supplied among those of greatest length, and    *)
(* its length is the same when the input is merged in the opposite order.  *)
(***************************************************************************)
C4_DescriptionLongestWins ==
  /\ section = "types" =>
       LET other == TypesFold(<<>>, Reverse(fed)) IN
       \A i \in DOMAIN yogaTypes :
         LET key == ToLowerCase(yogaTypes[i].name) IN
         /\ yogaTypes[i].description = FirstLongest(TypeInputsOf(key))
         /\ Len(yogaTypes[i].description) = Len(TypeOf(other, key).description)
  /\ section = "poses" =>
       LET other == PosesFold(EmptyPosesByCategory, Reverse(fed)) IN
       \A c \in Range(PoseCategories) :
         \A i \in DOMAIN posesByCategory[c] :
           LET pose == posesByCategory[c][i]
               key  == ToLowerCase(pose.name)
           IN /\ pose.description = FirstLongest(PoseInputsOf(c, key))
              /\ Len(pose.description) = Len(TypeOf(other[c], key).description)

\* three poses of one name and category were merged, the first one short and
\* the two later ones distinct and both of the greatest length
C4_Witness ==
  /\ section = "poses"
  /\ \E p \in AllPoses :
       LET pose == posesByCategory[p[1]][p[2]]
           from == PoseInputsOf(p[1], ToLowerCase(pose.name))
       IN \E a, b, c \in from :
            /\ a < b /\ b < c
            /\ Len(fed[a].item.description) < Len(fed[b].item.description)
            /\ Len(fed[b].item.description) = Len(fed[c].item.description)
            /\ fed[b].item.description # fed[c].item.description
            /\ pose.description = fed[b].item.description

(***************************************************************************)
(* C5  No duplicate strings (types merge): the benefits list and the       *)
(* suitable_for list of every merged type are duplicate-free.              *)
(***************************************************************************)
C5_NoDuplicateStrings ==
  \A i \in DOMAIN yogaTypes :
    /\ IsDuplicateFree(yogaTypes[i].benefits)
    /\ IsDuplicateFree(yogaTypes[i].suitable_for)

(***************************************************************************)
(* C6  Merge commutativity for sets (types merge): merging the consumed    *)
(* records in the opposite order gives every merged type the same set of   *)
(* benefits and the same set of suitable_for strings; for two records A, B *)
(* of one name this is "A then B" against "B then A".                      *)
(***************************************************************************)
C6_SetsCommute ==
  section = "types" =>
    LET other == TypesFold(<<>>, Reverse(fed)) IN
    \A i \in DOMAIN yogaTypes :
      LET key == ToLowerCase(yogaTypes[i].name) IN
      /\ Range(yogaTypes[i].benefits) = Range(TypeOf(other, key).benefits)
      /\ Range(yogaTypes[i].suitable_for) = Range(TypeOf(other, key).suitable_for)

\* two records of one name with different benefits and suitable_for sets
\* were merged
C6_Witness ==
  /\ section = "types"
  /\ Len(fed) = 2
  /\ Len(yogaTypes) = 1
  /\ Range(fed[1].item.benefits) # Range(fed[2].item.benefits)
  /\ Range(fed[1].item.suitable_for) # Range(fed[2].item.suitable_for)
  /\ Range(yogaTypes[1].benefits)
       = Range(fed[1].item.benefits) \cup Range(fed[2].item.benefits)

(***************************************************************************)
(* Vocabulary of the render properties.                                    *)
(***************************************************************************)
\* the categories the running section renders
RenderedLabels ==
  IF section = "poses" THEN Range(PoseCategories)
  ELSE IF section = "benefits" THEN Range(BenefitLabels)
  ELSE IF section = "tips" THEN Range(TipLabels)
  ELSE {}

\* the real records of a category, in the order the merge holds them
RealOf(c) ==
  IF section = "poses" THEN posesByCategory[c]
  ELSE IF section = "benefits" THEN benefits[c]
  ELSE tips[c]

\* the placeholders of a category
PlaceholdersOf(c) ==
  IF section = "poses" THEN Range(PosePlaceholders)
  ELSE IF section = "benefits" THEN Range(BenefitPlaceholders[c])
  ELSE Range(TipPlaceholders[c])

Min(a, b) == IF a < b THEN a ELSE b

(***************************************************************************)
(* C7  Every rendered category has exactly minCount display items (3 for   *)
(* a pose or tip category, 4 for a benefit category) and none of them is   *)
(* undefined.                                                              *)
(***************************************************************************)
C7_ExactlyMinCount ==
  pc = "done" =>
    \A c \in RenderedLabels :
      /\ Len(rendered[c]) = (IF section = "benefits" THEN 4 ELSE 3)
      /\ \A i \in DOMAIN rendered[c] :
           IF section = "poses"
             THEN {"name", "description"} \subseteq DOMAIN rendered[c][i]
             ELSE rendered[c][i] # Undefined

\* tips were rendered with one category above and the others below minCount
C7_Witness ==
  /\ section = "tips" /\ pc = "done"
  /\ \E c \in Range(TipLabels) : Len(tips[c]) = 4
  /\ \E c \in Range(TipLabels) : Len(tips[c]) = 0

(***************************************************************************)
(* C8  In every rendered category with n real records the first            *)
(* min(n, minCount) items are the first real records in first-seen order,  *)
(* unmodified; every later item is a placeholder; with n >= minCount there *)
(* is no placeholder.                                                      *)
(***************************************************************************)
C8_RealFirstThenPlaceholders ==
  pc = "done" =>
    \A c \in RenderedLabels :
      LET n == Len(RealOf(c))
          m == IF section = "benefits" THEN 4 ELSE 3
      IN /\ \A i \in 1..Min(n, m) :
              i \in DOMAIN rendered[c] /\ rendered[c][i] = RealOf(c)[i]
         /\ \A i \in DOMAIN rendered[c] : i > n => rendered[c][i] \in PlaceholdersOf(c)
         /\ n >= m => \A i \in DOMAIN rendered[c] : i <= n
         /\ section = "poses" =>
              \A i, j \in DOMAIN posesByCategory[c] :
                i < j =>
                  \E k \in PoseInputsOf(c, ToLowerCase(posesByCategory[c][i].name)) :
                    \A l \in PoseInputsOf(c, ToLowerCase(posesByCategory[c][j].name)) :
                      k < l

\* a benefit category with five real records was rendered
C8_Witness ==
  /\ section = "benefits" /\ pc = "done"
  /\ \E c \in Range(BenefitLabels) :
       /\ Len(benefits[c]) = 5
       /\ rendered[c] = SubSeq(benefits[c], 1, 4)

(***************************************************************************)
(* C9  Placeholder backfill (benefits, tips).                              *)
(* As claimed: the placeholders appended after n real records are the      *)
(* first minCount - n entries of the category's table, in table order.     *)
(***************************************************************************)
C9_PlaceholdersFromTableStart ==
  (pc = "done" /\ section \in {"benefits", "tips"}) =>
    \A c \in RenderedLabels :
      LET n     == Len(RealOf(c))
          table == IF section = "benefits" THEN BenefitPlaceholders[c]
                   ELSE TipPlaceholders[c]
      IN \A i \in DOMAIN rendered[c] : i > n => rendered[c][i] = table[i - n]

(***************************************************************************)
(* C9 as amended: the placeholder written at output position i is the      *)
(* i-th entry of the category's table, so after n real records the         *)
(* placeholders are the table entries n+1 .. minCount, in table order.     *)
(***************************************************************************)
C9_PlaceholdersFromTablePosition ==
  (pc = "done" /\ section \in {"benefits", "tips"}) =>
    \A c \in RenderedLabels :
      LET n     == Len(RealOf(c))
          table == IF section = "benefits" THEN BenefitPlaceholders[c]
                   ELSE TipPlaceholders[c]
      IN /\ Len(rendered[c]) = Len(table)
         /\ \A i \in DOMAIN rendered[c] : i > n => rendered[c][i] = table[i]

\* a benefit category with two real records was rendered: they are followed
\* by the third and the fourth entry of the table
C9_Witness ==
  /\ section = "benefits" /\ pc = "done"
  /\ \E c \in Range(BenefitLabels) :
       /\ Len(benefits[c]) = 2
       /\ rendered[c] = benefits[c] \o SubSeq(BenefitPlaceholders[c], 3, 4)

(***************************************************************************)
(* C10  Category relabeling: a text that arrives under the source key      *)
(* general is held and rendered under lifestyle, one under practice under  *)
(* mindful, one under physical, mental, beginners or props under the label *)
(* of the same name; a label holds and renders no text that did not arrive *)
(* under its key.                                                          *)
(***************************************************************************)
RelabelClaimed ==
  [physical  |-> "physical",  mental   |-> "mental",  general |-> "lifestyle",
   beginners |-> "beginners", practice |-> "mindful", props   |-> "props"]

C10_Relabeling ==
  section \in {"benefits", "tips"} =>
    /\ \A a \in arrived : a[2] \in Range(RealOf(RelabelClaimed[a[1]]))
    /\ \A c \in RenderedLabels :
         \A i \in DOMAIN RealOf(c) :
           \E a \in arrived : RelabelClaimed[a[1]] = c /\ a[2] = RealOf(c)[i]
    /\ pc = "done" =>
         \A c \in RenderedLabels :
           LET m == IF section = "benefits" THEN 4 ELSE 3 IN
           /\ \A i \in 1..Min(Len(RealOf(c)), m) :
                \E a \in arrived : RelabelClaimed[a[1]] = c /\ a[2] = rendered[c][i]
           /\ \A a \in arrived :
                (RelabelClaimed[a[1]] = c /\ Len(RealOf(c)) <= m)
                  => a[2] \in Range(rendered[c])

\* a text that arrived under general only and one that arrived under mental
\* only were rendered
C10_Witness ==
  /\ section = "benefits" /\ pc = "done"
  /\ \E g, h \in BenefitTexts :
       /\ {a \in arrived : a[2] = g} = {<<"general", g>>}
       /\ {a \in arrived : a[2] = h} = {<<"mental", h>>}
       /\ g \in Range(rendered["lifestyle"])
       /\ g \notin Range(rendered["mental"]) \cup Range(rendered["physical"])
       /\ h \in Range(rendered["mental"])

(***************************************************************************)
(* escapeHtml (scripts/update-guide-content.js).  A string is the sequence *)
(* of its characters; the five chained replace calls run in the order of   *)
(* the source.                                                             *)
(***************************************************************************)
\* the longest argument drawn from EscChars
MaxUnsafeLen == 3

AmpEntity == <<"&", "a", "m", "p", ";">>
LtEntity == <<"&", "l", "t", ";">>
GtEntity == <<"&", "g", "t", ";">>
QuotEntity == <<"&", "q", "u", "o", "t", ";">>
AposEntity == <<"&", "#", "0", "3", "9", ";">>

\* s.replace(/c/g, r): every occurrence of the character c becomes r
ReplaceAll(s, c, r) ==
  LET RECURSIVE Go(_)
      Go(i) == IF i > Len(s) THEN <<>>
               ELSE (IF s[i] = c THEN r ELSE <<s[i]>>) \o Go(i + 1)
  IN Go(1)

\* the replace calls with the ampersand replaced last
EscapeHtmlAmpersandLast(text) ==
  ReplaceAll(ReplaceAll(ReplaceAll(ReplaceAll(ReplaceAll(text,
    "<", LtEntity), ">", GtEntity), "\"", QuotEntity), "'", AposEntity),
    "&", AmpEntity)

\* escapeHtml(unsafe)
EscapeHtml(text) ==
  ReplaceAll(ReplaceAll(ReplaceAll(ReplaceAll(ReplaceAll(text,
    "&", AmpEntity), "<", LtEntity), ">", GtEntity), "\"", QuotEntity),
    "'", AposEntity)

\* the characters of the arguments
EscChars == {"&", "<", ">", "\"", "'", "a", ";"}

\* the sequences over S of length at most n
SeqsUpTo(S, n) == UNION {[1..k -> S] : k \in 0..n}

ScriptExample == <<"<", "s", "c", "r", "i", "p", "t", ">", "&", "\"", "'">>

\* the arguments escapeHtml is called with
UnsafeInputs == SeqsUpTo(EscChars, MaxUnsafeLen) \cup {ScriptExample}

EscapeInit ==
  /\ pc = "call"
  /\ unsafe \in UnsafeInputs
  /\ escaped = <<>>
  /\ IdleExcept({"Esc"})

\* one call of escapeHtml
EscapeHtmlCall ==
  /\ pc = "call"
  /\ escaped' = EscapeHtml(unsafe)
  /\ pc' = "return"
  /\ UNCHANGED <<unsafe, notEsc>>

EscapeNext == EscapeHtmlCall

SpecEscape == EscapeInit /\ [][EscapeNext]_vars

\* the entity of one character, the character itself when it has none
EntityOf(c) ==
  CASE c = "&" -> AmpEntity
    [] c = "<" -> LtEntity
    [] c = ">" -> GtEntity
    [] c = "\"" -> QuotEntity
    [] c = "'" -> AposEntity
    [] OTHER -> <<c>>

\* the concatenation of the entities of the characters of s
Charwise(s) ==
  LET RECURSIVE Go(_)
      Go(i) == IF i > Len(s) THEN <<>> ELSE EntityOf(s[i]) \o Go(i + 1)
  IN Go(1)

ScriptExampleEscaped ==
  LtEntity \o <<"s", "c", "r", "i", "p", "t">> \o GtEntity \o AmpEntity
    \o QuotEntity \o AposEntity

\* C11: escapeHtml replaces each of & < > " ' by its entity and nothing
\* else: the result is the character-by-character translation of the
\* argument (an ampersand the translation introduced is not escaped again),
\* it holds no raw < > " or ', and <script>&"' becomes
\* &lt;script&gt;&amp;&quot;&#039;.
C11_EscapeHtml ==
  pc = "return" =>
    /\ escaped = Charwise(unsafe)
    /\ \A i \in DOMAIN escaped : escaped[i] \notin {"<", ">", "\"", "'"}
    /\ unsafe = ScriptExample => escaped = ScriptExampleEscaped

\* C11 witness: the example has been escaped, every one of the five
\* characters once
C11_Witness ==
  /\ pc = "return"
  /\ unsafe = ScriptExample
  /\ escaped = ScriptExampleEscaped

(***************************************************************************)
(* The characters of the strings of the model, and the string helpers of   *)
(* scripts/update-guide-content.js that work character by character.       *)
(***************************************************************************)
Chars ==
  "" :> <<>>
  @@ "standing" :> <<"s", "t", "a", "n", "d", "i", "n", "g">>
  @@ "seated" :> <<"s", "e", "a", "t", "e", "d">>
  @@ "backbends" :> <<"b", "a", "c", "k", "b", "e", "n", "d", "s">>
  @@ "inversions" :> <<"i", "n", "v", "e", "r", "s", "i", "o", "n", "s">>
  @@ "physical" :> <<"p", "h", "y", "s", "i", "c", "a", "l">>
  @@ "mental" :> <<"m", "e", "n", "t", "a", "l">>
  @@ "lifestyle" :> <<"l", "i", "f", "e", "s", "t", "y", "l", "e">>
  @@ "beginners" :> <<"b", "e", "g", "i", "n", "n", "e", "r", "s">>
  @@ "mindful" :> <<"m", "i", "n", "d", "f", "u", "l">>
  @@ "props" :> <<"p", "r", "o", "p", "s">>
  @@ "YJ" :> <<"Y", "J">>
  @@ "Y&A" :> <<"Y", "&", "A">>
  @@ "a<b" :> <<"a", "<", "b">>
  @@ "x&y" :> <<"x", "&", "y">>
  @@ "it's" :> <<"i", "t", "'", "s">>
  @@ "say \"om\"" :> <<"s", "a", "y", " ", "\"", "o", "m", "\"">>
  @@ "oops" :> <<"o", "o", "p", "s">>
  @@ "improves <b>sleep" :> <<"i", "m", "p", "r", "o", "v", "e", "s", " ",
       "<", "b", ">", "s", "l", "e", "e", "p">>
  @@ "better sleep & mood." :> <<"b", "e", "t", "t", "e", "r", " ", "s",
       "l", "e", "e", "p", " ", "&", " ", "m", "o", "o", "d", ".">>
  @@ "calm > stress" :> <<"c", "a", "l", "m", " ", ">", " ", "s", "t", "r",
       "e", "s", "s">>
  @@ "breathe & relax" :> <<"b", "r", "e", "a", "t", "h", "e", " ", "&",
       " ", "r", "e", "l", "a", "x">>
  @@ "use your \"mat\"" :> <<"u", "s", "e", " ", "y", "o", "u", "r", " ",
       "\"", "m", "a", "t", "\"">>
  @@ "don't rush" :> <<"d", "o", "n", "'", "t", " ", "r", "u", "s", "h">>
  @@ "A foundational standing pose that teaches proper alignment." :> <<
       "A", " ", "f", "o", "u", "n", "d", "a", "t", "i", "o", "n",
       "a", "l", " ", "s", "t", "a", "n", "d", "i", "n", "g", " ",
       "p", "o", "s", "e", " ", "t", "h", "a", "t", " ", "t", "e",
       "a", "c", "h", "e", "s", " ", "p", "r", "o", "p", "e", "r",
       " ", "a", "l", "i", "g", "n", "m", "e", "n", "t", ".">>
  @@ "A comfortable seated position for meditation and breathing." :> <<
       "A", " ", "c", "o", "m", "f", "o", "r", "t", "a", "b", "l",
       "e", " ", "s", "e", "a", "t", "e", "d", " ", "p", "o", "s",
       "i", "t", "i", "o", "n", " ", "f", "o", "r", " ", "m", "e",
       "d", "i", "t", "a", "t", "i", "o", "n", " ", "a", "n", "d",
       " ", "b", "r", "e", "a", "t", "h", "i", "n", "g", ".">>
  @@ "A gentle backbend that strengthens the spine and opens the chest." :> <<
       "A", " ", "g", "e", "n", "t", "l", "e", " ", "b", "a", "c",
       "k", "b", "e", "n", "d", " ", "t", "h", "a", "t", " ", "s",
       "t", "r", "e", "n", "g", "t", "h", "e", "n", "s", " ", "t",
       "h", "e", " ", "s", "p", "i", "n", "e", " ", "a", "n", "d",
       " ", "o", "p", "e", "n", "s", " ", "t", "h", "e", " ", "c",
       "h", "e", "s", "t", ".">>
  @@ "An inversion that stretches the entire back of the body." :> <<"A",
       "n", " ", "i", "n", "v", "e", "r", "s", "i", "o", "n", " ",
       "t", "h", "a", "t", " ", "s", "t", "r", "e", "t", "c", "h",
       "e", "s", " ", "t", "h", "e", " ", "e", "n", "t", "i", "r",
       "e", " ", "b", "a", "c", "k", " ", "o", "f", " ", "t", "h",
       "e", " ", "b", "o", "d", "y", ".">>
  @@ "Improved flexibility and range of motion in joints." :> <<"I", "m",
       "p", "r", "o", "v", "e", "d", " ", "f", "l", "e", "x", "i",
       "b", "i", "l", "i", "t", "y", " ", "a", "n", "d", " ", "r",
       "a", "n", "g", "e", " ", "o", "f", " ", "m", "o", "t", "i",
       "o", "n", " ", "i", "n", " ", "j", "o", "i", "n", "t", "s",
       ".">>
  @@ "Increased muscle strength and tone." :> <<"I", "n", "c", "r", "e",
       "a", "s", "e", "d", " ", "m", "u", "s", "c", "l", "e", " ",
       "s", "t", "r", "e", "n", "g", "t", "h", " ", "a", "n", "d",
       " ", "t", "o", "n", "e", ".">>
  @@ "Better posture and body alignment." :> <<"B", "e", "t", "t", "e",
       "r", " ", "p", "o", "s", "t", "u", "r", "e", " ", "a", "n",
       "d", " ", "b", "o", "d", "y", " ", "a", "l", "i", "g", "n",
       "m", "e", "n", "t", ".">>
  @@ "Enhanced balance and stability." :> <<"E", "n", "h", "a", "n", "c",
       "e", "d", " ", "b", "a", "l", "a", "n", "c", "e", " ", "a",
       "n", "d", " ", "s", "t", "a", "b", "i", "l", "i", "t", "y",
       ".">>
  @@ "Reduced stress and anxiety levels." :> <<"R", "e", "d", "u", "c",
       "e", "d", " ", "s", "t", "r", "e", "s", "s", " ", "a", "n",
       "d", " ", "a", "n", "x", "i", "e", "t", "y", " ", "l", "e",
       "v", "e", "l", "s", ".">>
  @@ "Improved focus and concentration." :> <<"I", "m", "p", "r", "o", "v",
       "e", "d", " ", "f", "o", "c", "u", "s", " ", "a", "n", "d",
       " ", "c", "o", "n", "c", "e", "n", "t", "r", "a", "t", "i",
       "o", "n", ".">>
  @@ "Enhanced mood and emotional regulation." :> <<"E", "n", "h", "a",
       "n", "c", "e", "d", " ", "m", "o", "o", "d", " ", "a", "n",
       "d", " ", "e", "m", "o", "t", "i", "o", "n", "a", "l", " ",
       "r", "e", "g", "u", "l", "a", "t", "i", "o", "n", ".">>
  @@ "Better sleep quality and reduced insomnia." :> <<"B", "e", "t", "t",
       "e", "r", " ", "s", "l", "e", "e", "p", " ", "q", "u", "a",
       "l", "i", "t", "y", " ", "a", "n", "d", " ", "r", "e", "d",
       "u", "c", "e", "d", " ", "i", "n", "s", "o", "m", "n", "i",
       "a", ".">>
  @@ "Healthier habits and mindful eating." :> <<"H", "e", "a", "l", "t",
       "h", "i", "e", "r", " ", "h", "a", "b", "i", "t", "s", " ",
       "a", "n", "d", " ", "m", "i", "n", "d", "f", "u", "l", " ",
       "e", "a", "t", "i", "n", "g", ".">>
  @@ "Better energy management throughout the day." :> <<"B", "e", "t",
       "t", "e", "r", " ", "e", "n", "e", "r", "g", "y", " ", "m",
       "a", "n", "a", "g", "e", "m", "e", "n", "t", " ", "t", "h",
       "r", "o", "u", "g", "h", "o", "u", "t", " ", "t", "h", "e",
       " ", "d", "a", "y", ".">>
  @@ "Improved breathing patterns and lung function." :> <<"I", "m", "p",
       "r", "o", "v", "e", "d", " ", "b", "r", "e", "a", "t", "h",
       "i", "n", "g", " ", "p", "a", "t", "t", "e", "r", "n", "s",
       " ", "a", "n", "d", " ", "l", "u", "n", "g", " ", "f", "u",
       "n", "c", "t", "i", "o", "n", ".">>
  @@ "Enhanced body awareness and mindfulness." :> <<"E", "n", "h", "a",
       "n", "c", "e", "d", " ", "b", "o", "d", "y", " ", "a", "w",
       "a", "r", "e", "n", "e", "s", "s", " ", "a", "n", "d", " ",
       "m", "i", "n", "d", "f", "u", "l", "n", "e", "s", "s", ".">>
  @@ "Start with beginner-friendly classes to learn proper alignment." :> <<
       "S", "t", "a", "r", "t", " ", "w", "i", "t", "h", " ", "b",
       "e", "g", "i", "n", "n", "e", "r", "-", "f", "r", "i", "e",
       "n", "d", "l", "y", " ", "c", "l", "a", "s", "s", "e", "s",
       " ", "t", "o", " ", "l", "e", "a", "r", "n", " ", "p", "r",
       "o", "p", "e", "r", " ", "a", "l", "i", "g", "n", "m", "e",
       "n", "t", ".">>
  @@ "Don't push beyond your comfort zone; listen to your body." :> <<"D",
       "o", "n", "'", "t", " ", "p", "u", "s", "h", " ", "b", "e",
       "y", "o", "n", "d", " ", "y", "o", "u", "r", " ", "c", "o",
       "m", "f", "o", "r", "t", " ", "z", "o", "n", "e", ";", " ",
       "l", "i", "s", "t", "e", "n", " ", "t", "o", " ", "y", "o",
       "u", "r", " ", "b", "o", "d", "y", ".">>
  @@ "Consistency is more important than intensity; practice regularly." :> <<
       "C", "o", "n", "s", "i", "s", "t", "e", "n", "c", "y", " ",
       "i", "s", " ", "m", "o", "r", "e", " ", "i", "m", "p", "o",
       "r", "t", "a", "n", "t", " ", "t", "h", "a", "n", " ", "i",
       "n", "t", "e", "n", "s", "i", "t", "y", ";", " ", "p", "r",
       "a", "c", "t", "i", "c", "e", " ", "r", "e", "g", "u", "l",
       "a", "r", "l", "y", ".">>
  @@ "Focus on your breath throughout your practice." :> <<"F", "o", "c",
       "u", "s", " ", "o", "n", " ", "y", "o", "u", "r", " ", "b",
       "r", "e", "a", "t", "h", " ", "t", "h", "r", "o", "u", "g",
       "h", "o", "u", "t", " ", "y", "o", "u", "r", " ", "p", "r",
       "a", "c", "t", "i", "c", "e", ".">>
  @@ "Set an intention at the beginning of each session." :> <<"S", "e",
       "t", " ", "a", "n", " ", "i", "n", "t", "e", "n", "t", "i",
       "o", "n", " ", "a", "t", " ", "t", "h", "e", " ", "b", "e",
       "g", "i", "n", "n", "i", "n", "g", " ", "o", "f", " ", "e",
       "a", "c", "h", " ", "s", "e", "s", "s", "i", "o", "n", ".">>
  @@ "Stay present by continually bringing your attention back to your mat." :> <<
       "S", "t", "a", "y", " ", "p", "r", "e", "s", "e", "n", "t",
       " ", "b", "y", " ", "c", "o", "n", "t", "i", "n", "u", "a",
       "l", "l", "y", " ", "b", "r", "i", "n", "g", "i", "n", "g",
       " ", "y", "o", "u", "r", " ", "a", "t", "t", "e", "n", "t",
       "i", "o", "n", " ", "b", "a", "c", "k", " ", "t", "o", " ",
       "y", "o", "u", "r", " ", "m", "a", "t", ".">>
  @@ "Yoga blocks help bring the floor closer in forward folds." :> <<"Y",
       "o", "g", "a", " ", "b", "l", "o", "c", "k", "s", " ", "h",
       "e", "l", "p", " ", "b", "r", "i", "n", "g", " ", "t", "h",
       "e", " ", "f", "l", "o", "o", "r", " ", "c", "l", "o", "s",
       "e", "r", " ", "i", "n", " ", "f", "o", "r", "w", "a", "r",
       "d", " ", "f", "o", "l", "d", "s", ".">>
  @@ "Straps extend your reach in poses where flexibility is limited." :> <<
       "S", "t", "r", "a", "p", "s", " ", "e", "x", "t", "e", "n",
       "d", " ", "y", "o", "u", "r", " ", "r", "e", "a", "c", "h",
       " ", "i", "n", " ", "p", "o", "s", "e", "s", " ", "w", "h",
       "e", "r", "e", " ", "f", "l", "e", "x", "i", "b", "i", "l",
       "i", "t", "y", " ", "i", "s", " ", "l", "i", "m", "i", "t",
       "e", "d", ".">>
  @@ "A dedicated yoga space helps establish a consistent practice routine." :> <<
       "A", " ", "d", "e", "d", "i", "c", "a", "t", "e", "d", " ",
       "y", "o", "g", "a", " ", "s", "p", "a", "c", "e", " ", "h",
       "e", "l", "p", "s", " ", "e", "s", "t", "a", "b", "l", "i",
       "s", "h", " ", "a", " ", "c", "o", "n", "s", "i", "s", "t",
       "e", "n", "t", " ", "p", "r", "a", "c", "t", "i", "c", "e",
       " ", "r", "o", "u", "t", "i", "n", "e", ".">>

\* the characters of a string of the model
CharsOf(s) == Chars[s]

\* the characters \w and \s of a regular expression match
WordChars ==
  Range(UpperChars) \cup Range(LowerChars) \cup
  {"0", "1", "2", "3", "4", "5", "6", "7", "8", "9", "_"}
SpaceChars == {" ", "\t", "\n"}
ClassChars == WordChars \cup SpaceChars

\* the upper-case letter of every lower-case letter
UpperOf ==
  [c \in Range(LowerChars) |->
     UpperChars[CHOOSE i \in DOMAIN LowerChars : LowerChars[i] = c]]

\* string.charAt(0).toUpperCase() + string.slice(1)
CapitalizeFirstLetter(string) ==
  IF string = <<>> THEN <<>>
  ELSE [string EXCEPT ![1] = IF @ \in DOMAIN UpperOf THEN UpperOf[@] ELSE @]

\* string.trim()
Trim(string) ==
  LET kept == {i \in DOMAIN string : string[i] \notin SpaceChars} IN
  IF kept = {} THEN <<>>
  ELSE SubSeq(string, CHOOSE i \in kept : \A j \in kept : i <= j,
                      CHOOSE i \in kept : \A j \in kept : j <= i)

\* string.replace(/\.$/, '')
RemoveFinalDot(string) ==
  IF string # <<>> /\ string[Len(string)] = "."
    THEN SubSeq(string, 1, Len(string) - 1)
    ELSE string

\* text.split(' ').slice(0, 3).join(' '): the text before its third space
FirstThreeWords(text) ==
  LET spaces == {i \in DOMAIN text : text[i] = " "}
      third == {i \in spaces : Cardinality({j \in spaces : j < i}) = 2}
  IN IF third = {} THEN text
     ELSE SubSeq(text, 1, (CHOOSE i \in third : TRUE) - 1)

\* the word is at position p of the text, whatever the case of the letters
WordAt(text, p, word) ==
  /\ p + Len(word) - 1 <= Len(text)
  /\ \A i \in DOMAIN word : LowerChar(text[p + i - 1]) = word[i]

\* the end of the longest run of [\w\s] characters that starts at from
ClassRunEnd(text, from) ==
  LET stops == {i \in from..Len(text) : text[i] \notin ClassChars} IN
  IF stops = {} THEN Len(text)
  ELSE (CHOOSE i \in stops : \A j \in stops : i <= j) - 1

\* the alternatives of the pattern of extractBenefitTitle: the verb and
\* whether an "s" may follow it
BenefitVerbs ==
  << [word |-> <<"i","m","p","r","o","v","e">>, s |-> TRUE],
     [word |-> <<"i","n","c","r","e","a","s","e">>, s |-> TRUE],
     [word |-> <<"e","n","h","a","n","c","e">>, s |-> TRUE],
     [word |-> <<"r","e","d","u","c","e">>, s |-> TRUE],
     [word |-> <<"b","e","t","t","e","r">>, s |-> FALSE] >>

\* where the group ([\w\s]+) starts when the alternative matches at p, else 0
BenefitGroupStart(text, p, verb) ==
  IF ~WordAt(text, p, verb.word) THEN 0
  ELSE LET q == p + Len(verb.word)
           space == IF verb.s /\ q <= Len(text) /\ LowerChar(text[q]) = "s"
                      THEN q + 1 ELSE q
       IN IF /\ space + 1 <= Len(text)
             /\ text[space] = " "
             /\ text[space + 1] \in ClassChars
            THEN space + 1 ELSE 0

\* extractBenefitTitle(text)
ExtractBenefitTitle(text) ==
  LET starts == {p \in DOMAIN text : \E v \in DOMAIN BenefitVerbs :
                   BenefitGroupStart(text, p, BenefitVerbs[v]) # 0}
  IN IF starts # {}
       THEN LET p == CHOOSE i \in starts : \A j \in starts : i <= j
                v == CHOOSE i \in DOMAIN BenefitVerbs :
                       BenefitGroupStart(text, p, BenefitVerbs[i]) # 0
                from == BenefitGroupStart(text, p, BenefitVerbs[v])
                match == SubSeq(text, from, ClassRunEnd(text, from))
            IN RemoveFinalDot(CapitalizeFirstLetter(Trim(match)))
       ELSE CapitalizeFirstLetter(RemoveFinalDot(FirstThreeWords(text)))

\* the words that end the group of the pattern of extractTipTitle
TipStopWords ==
  { <<"y","o","u","r">>, <<"t","h","e">>, <<"f","o","r">>,
    <<"w","h","e","n">>, <<"t","o">>, <<"b","y">>, <<"a","n","d">> }

\* extractTipTitle(text)
ExtractTipTitle(text) ==
  LET ends == {k \in 1..(Len(text) - 1) :
                 /\ \A i \in 1..k : text[i] \in ClassChars
                 /\ text[k + 1] \in SpaceChars
                 /\ \E w \in TipStopWords : WordAt(text, k + 2, w)}
  IN IF ends # {}
       THEN LET k == CHOOSE i \in ends : \A j \in ends : i <= j
            IN CapitalizeFirstLetter(Trim(SubSeq(text, 1, k)))
       ELSE CapitalizeFirstLetter(RemoveFinalDot(FirstThreeWords(text)))

(***************************************************************************)
(* generateSectionContent(section, data): one whole call, from the array   *)
(* of sources of a data file to the generated content.  The content is the *)
(* sequence of its "content +=" statements; a statement has at most one    *)
(* interpolation ${}, of which the model keeps the string that was         *)
(* interpolated (text) and the string it was computed from (raw).          *)
(***************************************************************************)
\* the number of sources of a data file
MaxSources == 2

\* a statement without interpolation
Line(template) ==
  [template |-> template, origin |-> "template", raw |-> <<>>, text |-> <<>>]

\* a statement that interpolates a constant of the script
ConstantHole(template, value) ==
  [template |-> template, origin |-> "constant", raw |-> value, text |-> value]

\* a statement that interpolates escapeHtml(value); origin is "input" for a
\* value of the data file and "default" for a default or placeholder text
EscapedHole(template, origin, value) ==
  [template |-> template, origin |-> origin, raw |-> value,
   text |-> EscapeHtml(value)]

\* arr.join(sep) on sequences of characters
JoinChars(arr, sep) ==
  LET RECURSIVE Go(_)
      Go(i) == IF i > Len(arr) THEN <<>>
               ELSE IF i = Len(arr) THEN arr[i]
               ELSE arr[i] \o sep \o Go(i + 1)
  IN Go(1)

\* the concatenation of a sequence of sequences
Flatten(seqs) ==
  LET RECURSIVE Go(_)
      Go(i) == IF i > Len(seqs) THEN <<>> ELSE seqs[i] \o Go(i + 1)
  IN Go(1)

AttributionTemplate == "<!-- Data sourced from: ${} -->\n"

\* content += `<!-- Data sourced from: ${sources.map(s => s.source).join(', ')} -->\n`
AttributionFooter(srcs) ==
  LET names == JoinChars([i \in DOMAIN srcs |-> CharsOf(srcs[i].source)],
                         <<",", " ">>)
  IN [template |-> AttributionTemplate, origin |-> "input",
      raw |-> names, text |-> names]

\* if (source.data && Array.isArray(source.data))
HasArrayData(source) == source.data.kind = "array"

\* if (source.data)
HasData(source) == source.data.kind # "undefined"

\* the (item, source name) pairs the combine loop of types and poses visits
ItemInputs(srcs) ==
  Flatten([i \in DOMAIN srcs |->
    IF HasArrayData(srcs[i])
      THEN [j \in DOMAIN srcs[i].data.items |->
              [item |-> srcs[i].data.items[j], source |-> srcs[i].source]]
      ELSE <<>>])

\* source.data[key] && Array.isArray(source.data[key]): the texts under key
KeyTexts(source, key) ==
  IF source.data.kind = "object" THEN source.data[key] ELSE <<>>

\* the (key, text) pairs the combine loop of benefits and tips visits
KeyInputs(srcs, keys) ==
  Flatten([i \in DOMAIN srcs |->
    IF HasData(srcs[i])
      THEN Flatten([k \in DOMAIN keys |->
             [j \in DOMAIN KeyTexts(srcs[i], keys[k]) |->
                <<keys[k], KeyTexts(srcs[i], keys[k])[j]>>]])
      ELSE <<>>])

RECURSIVE BenefitsFold(_, _)
\* the combine loop of generateYogaBenefitsContent run over a whole input
BenefitsFold(buckets, inputs) ==
  IF inputs = <<>> THEN buckets
  ELSE BenefitsFold(BenefitsMerge(buckets, Head(inputs)[1], Head(inputs)[2]),
                    Tail(inputs))

RECURSIVE TipsFold(_, _)
\* the combine loop of generateYogaTipsContent run over a whole input
TipsFold(buckets, inputs) ==
  IF inputs = <<>> THEN buckets
  ELSE TipsFold(TipsMerge(buckets, Head(inputs)[1], Head(inputs)[2]),
                Tail(inputs))

StandardTypes ==
  << <<"V","i","n","y","a","s","a">>, <<"H","a","t","h","a">>,
     <<"Y","i","n">>, <<"P","o","w","e","r">>,
     <<"R","e","s","t","o","r","a","t","i","v","e">> >>

\* the statements of one standard type
TypeSection(types, typeName) ==
  LET found == FindIndex(types, typeName)
      overview ==
        IF found = 0
          THEN ConstantHole(
                 "    <p>${} yoga is a popular style with many benefits.</p>\n",
                 typeName)
          ELSE EscapedHole("    <p>${}</p>\n", "input",
                           CharsOf(types[found].description))
      typeBenefits ==
        IF found # 0 /\ Len(types[found].benefits) > 0
          THEN EscapedHole("    <p>${}</p>\n", "input",
                           CharsOf(types[found].benefits[1]))
          ELSE ConstantHole(
                 "    <p>${} yoga offers numerous physical and mental benefits.</p>\n",
                 typeName)
      suitableFor ==
        IF found # 0 /\ Len(types[found].suitable_for) > 0
          THEN EscapedHole("    <p>${}</p>\n", "input",
                           CharsOf(types[found].suitable_for[1]))
          ELSE ConstantHole(
                 "    <p>${} yoga can be adapted for practitioners of various levels.</p>\n",
                 typeName)
  IN << ConstantHole("{% if type == \"${}\" %}\n", typeName),
        Line("  <div class=\"content-section\">\n"),
        Line("    <h4>Overview</h4>\n"),
        overview,
        Line("  </div>\n\n"),
        Line("  <div class=\"content-section\">\n"),
        Line("    <h4>Benefits</h4>\n"),
        typeBenefits,
        Line("  </div>\n\n"),
        Line("  <div class=\"content-section\">\n"),
        Line("    <h4>Who It's For</h4>\n"),
        suitableFor,
        Line("  </div>\n"),
        Line("{% endif %}\n\n") >>

\* generateYogaTypesContent(sources)
GenerateYogaTypesContent(srcs) ==
  LET types == TypesFold(<<>>, ItemInputs(srcs)) IN
  Flatten([i \in DOMAIN StandardTypes |-> TypeSection(types, StandardTypes[i])])
    \o <<AttributionFooter(srcs)>>

\* the introduction of a category of poses
PosesIntro ==
  [standing |-> "    <p>Standing poses form the foundation of yoga practice. They build strength, improve balance, and enhance focus.</p>\n",
   seated |-> "    <p>Seated poses improve flexibility, especially in the hips and spine, and cultivate a sense of groundedness.</p>\n",
   backbends |-> "    <p>Backbends open the chest and shoulders, increase spinal mobility, and counteract the effects of sitting.</p>\n",
   inversions |-> "    <p>Inversions reverse the effects of gravity, bringing fresh blood flow to the brain and offering a new perspective.</p>\n"]

\* the statements of one pose of topPoses; a placeholder has no source
PoseItem(pose) ==
  LET origin == IF "source" \in DOMAIN pose THEN "input" ELSE "default" IN
  << Line("      <div class=\"pose-item\">\n"),
     EscapedHole("        <h4>${}</h4>\n", origin, pose.name),
     EscapedHole("        <p>${}</p>\n", origin, CharsOf(pose.description)),
     Line("      </div>\n") >>

\* the statements of one category of poses
PosesSection(poses, category) ==
  LET topPoses == TopPoses(poses, category) IN
  << ConstantHole("{% if target == \"${}\" %}\n", CharsOf(category)),
     Line("  <div class=\"poses-description\">\n"),
     Line(PosesIntro[category]),
     Line("    <div class=\"poses-list\">\n") >>
  \o Flatten([i \in DOMAIN topPoses |-> PoseItem(topPoses[i])])
  \o << Line("    </div>\n"), Line("  </div>\n"), Line("{% endif %}\n\n") >>

\* generateYogaPosesContent(sources)
GenerateYogaPosesContent(srcs) ==
  LET byCategory == PosesFold(EmptyPosesByCategory, ItemInputs(srcs)) IN
  Flatten([i \in DOMAIN PoseCategories |->
             PosesSection(byCategory[PoseCategories[i]], PoseCategories[i])])
    \o <<AttributionFooter(srcs)>>

\* the statements of one benefit or tip card; the first real texts of the
\* list come from the data file, the others are placeholders
Card(open, title, body, origin) ==
  << Line(open),
     EscapedHole("      <h4>${}</h4>\n", origin, title),
     EscapedHole("      <p>${}</p>\n", origin, body),
     Line("    </div>\n") >>

\* the statements of one category of benefits
BenefitsSection(bucket, category) ==
  LET categoryBenefits == CategoryBenefits(bucket, category)
      real == Len(Slice(bucket, BenefitMinCount))
  IN << ConstantHole("{% if target == \"${}\" %}\n", CharsOf(category)),
        Line("  <div class=\"benefits-grid\">\n") >>
     \o Flatten([i \in DOMAIN categoryBenefits |->
          Card("    <div class=\"benefit-card\">\n",
               ExtractBenefitTitle(CharsOf(categoryBenefits[i])),
               CharsOf(categoryBenefits[i]),
               IF i <= real THEN "input" ELSE "default")])
     \o << Line("  </div>\n"), Line("{% endif %}\n\n") >>

\* generateYogaBenefitsContent(sources)
GenerateYogaBenefitsContent(srcs) ==
  LET buckets == BenefitsFold(EmptyBenefits,
                   KeyInputs(srcs, <<"physical", "mental", "general">>))
  IN Flatten([i \in DOMAIN BenefitLabels |->
                BenefitsSection(buckets[BenefitLabels[i]], BenefitLabels[i])])
       \o <<AttributionFooter(srcs)>>

\* the statements of one category of tips
TipsSection(bucket, category) ==
  LET categoryTips == CategoryTips(bucket, category)
      real == Len(Slice(bucket, TipMinCount))
  IN << ConstantHole("{% if target == \"${}\" %}\n", CharsOf(category)),
        Line("  <div class=\"tips-grid\">\n") >>
     \o Flatten([i \in DOMAIN categoryTips |->
          Card("    <div class=\"tip-card\">\n",
               ExtractTipTitle(CharsOf(categoryTips[i])),
               CharsOf(categoryTips[i]),
               IF i <= real THEN "input" ELSE "default")])
     \o << Line("  </div>\n"), Line("{% endif %}\n\n") >>

\* generateYogaTipsContent(sources)
GenerateYogaTipsContent(srcs) ==
  LET buckets == TipsFold(EmptyTips,
                   KeyInputs(srcs, <<"beginners", "practice", "props">>))
  IN Flatten([i \in DOMAIN TipLabels |->
                TipsSection(buckets[TipLabels[i]], TipLabels[i])])
       \o <<AttributionFooter(srcs)>>

\* what a call returns, and what a call throws
Returned(value) == [threw |-> FALSE, value |-> value, message |-> ""]
Threw(message) == [threw |-> TRUE, value |-> <<>>, message |-> message]

(***************************************************************************)
(* The TypeError generateYogaTypesContent throws on a record that lacks a  *)
(* field it reads.  A record is followed by what the function reads of it: *)
(* its name in lower case (no name: the empty sequence) and whether it has *)
(* a benefits and a suitable_for array.                                    *)
(***************************************************************************)
NoError == ""
ReadToLowerCase == "Cannot read properties of undefined (reading 'toLowerCase')"
ReadLength == "Cannot read properties of undefined (reading 'length')"

TypeShape(item) ==
  [name |-> IF "name" \in DOMAIN item THEN <<ToLowerCase(item.name)>> ELSE <<>>,
   benefits |-> "benefits" \in DOMAIN item,
   suitable_for |-> "suitable_for" \in DOMAIN item]

\* the first record at which t => t.name.toLowerCase() === name stops: the
\* record has no name, or its name matches; 0 when the array is exhausted
FirstStop(shapes, name) ==
  LET stops == {j \in DOMAIN shapes :
                  shapes[j].name = <<>> \/ shapes[j].name = <<name>>} IN
  IF stops = {} THEN 0 ELSE CHOOSE j \in stops : \A k \in stops : j <= k

\* one iteration of for (const typeName of standardTypes)
StandardTypeError(shapes, typeName) ==
  LET stop == FirstStop(shapes, ToLowerCase(typeName)) IN
  IF stop = 0 THEN NoError
  ELSE IF shapes[stop].name = <<>> THEN ReadToLowerCase
  ELSE IF ~shapes[stop].benefits \/ ~shapes[stop].suitable_for THEN ReadLength
  ELSE NoError

\* the loop over standardTypes: the error of the first iteration that throws
RenderError(shapes) ==
  LET failing == {i \in DOMAIN StandardTypes :
                    StandardTypeError(shapes, StandardTypes[i]) # NoError} IN
  IF failing = {} THEN NoError
  ELSE StandardTypeError(shapes,
         StandardTypes[CHOOSE i \in failing : \A k \in failing : i <= k])

RECURSIVE TypesError(_, _)
\* the combine loop, then the loop over standardTypes
TypesError(shapes, inputs) ==
  IF inputs = <<>> THEN RenderError(shapes)
  ELSE LET item == TypeShape(Head(inputs).item)
           stop == IF item.name = <<>> THEN 0 ELSE FirstStop(shapes, item.name[1])
       IN IF shapes = <<>> THEN TypesError(<<item>>, Tail(inputs))
          ELSE IF item.name = <<>> THEN ReadToLowerCase
          ELSE IF stop = 0 THEN TypesError(Append(shapes, item), Tail(inputs))
          ELSE IF shapes[stop].name = <<>> THEN ReadToLowerCase
          ELSE TypesError(
                 [shapes EXCEPT ![stop].benefits = @ \/ item.benefits,
                                ![stop].suitable_for = @ \/ item.suitable_for],
                 Tail(inputs))

\* generateYogaTypesContent(sources): the content, or the TypeError
YogaTypesOutcome(srcs) ==
  LET error == TypesError(<<>>, ItemInputs(srcs)) IN
  IF error # NoError THEN Threw(error)
  ELSE Returned(GenerateYogaTypesContent(srcs))

\* generateSectionContent with a default case that returns an empty content
GenerateSectionContentNoThrow(sec, data) ==
  CASE sec = "types" -> Returned(GenerateYogaTypesContent(data))
    [] sec = "poses" -> Returned(GenerateYogaPosesContent(data))
    [] sec = "benefits" -> Returned(GenerateYogaBenefitsContent(data))
    [] sec = "tips" -> Returned(GenerateYogaTipsContent(data))
    [] OTHER -> Returned(<<>>)

\* generateSectionContent(section, data)
GenerateSectionContent(sec, data) ==
  CASE sec = "types" -> YogaTypesOutcome(data)
    [] sec = "poses" -> Returned(GenerateYogaPosesContent(data))
    [] sec = "benefits" -> Returned(GenerateYogaBenefitsContent(data))
    [] sec = "tips" -> Returned(GenerateYogaTipsContent(data))
    [] OTHER -> Threw("Unknown section: " \o sec)

(***************************************************************************)
(* The data files generateSectionContent is called with.                   *)
(***************************************************************************)
ContentSourceNames == {"YJ", "Y&A"}

\* a source without data, and one whose data is a string
NoData == [kind |-> "undefined"]
StringData == [kind |-> "string", value |-> "oops"]

ArrayData(items) == [kind |-> "array", items |-> items]

ContentTypeItems ==
  {[name |-> Yin, description |-> "a<b",
    benefits |-> <<"x&y">>, suitable_for |-> <<"it's">>],
   [name |-> Hatha, description |-> "say \"om\"",
    benefits |-> <<>>, suitable_for |-> <<>>]}

ContentPoseItems ==
  {[name |-> <<"T", "&", "T">>, description |-> "a<b", image_url |-> "",
    category |-> "standing"],
   [name |-> Tree, description |-> "say \"om\"", image_url |-> "",
    category |-> "seated"]}

ContentBenefitData ==
  {[kind |-> "object", physical |-> <<"improves <b>sleep">>,
    mental |-> <<"calm > stress">>, general |-> <<>>],
   [kind |-> "object", physical |-> <<>>, mental |-> <<>>,
    general |-> <<"better sleep & mood.">>]}

ContentTipData ==
  {[kind |-> "object", beginners |-> <<"don't rush">>,
    practice |-> <<"breathe & relax">>, props |-> <<>>],
   [kind |-> "object", beginners |-> <<>>, practice |-> <<>>,
    props |-> <<"use your \"mat\"">>]}

\* the values of the data field of a source of <section>.json
SectionData(sec) ==
  {NoData, StringData} \cup
  CASE sec = "poses" -> {ArrayData(<<p>>) : p \in ContentPoseItems}
    [] sec = "benefits" -> ContentBenefitData
    [] sec = "tips" -> ContentTipData
    [] OTHER -> {ArrayData(<<t>>) : t \in ContentTypeItems}

\* the arrays of sources of <section>.json
SourceArrays(sec) ==
  LET entries == {[source |-> n, data |-> d] :
                    n \in ContentSourceNames, d \in SectionData(sec)}
  IN UNION {[1..k -> entries] : k \in 1..MaxSources}

\* a name generateSectionContent has no case for
UnknownSection == "videos"

CallInit ==
  /\ pc = "call"
  /\ section \in Sections \cup {UnknownSection}
  /\ sources \in SourceArrays(section)
  /\ content = <<>>
  /\ thrown = ""
  /\ fed = <<>> /\ arrived = {} /\ yogaTypes = <<>>
  /\ posesByCategory = <<>> /\ benefits = <<>> /\ tips = <<>>
  /\ rendered = <<>>
  /\ IdleExcept({"Gen", "Call"})

\* one call of generateSectionContent that returns
CallReturns ==
  /\ pc = "call"
  /\ ~GenerateSectionContent(section, sources).threw
  /\ content' = GenerateSectionContent(section, sources).value
  /\ pc' = "return"
  /\ UNCHANGED <<sources, thrown, notCall>>

\* one call of generateSectionContent that throws
CallThrows ==
  /\ pc = "call"
  /\ GenerateSectionContent(section, sources).threw
  /\ thrown' = GenerateSectionContent(section, sources).message
  /\ pc' = "thrown"
  /\ UNCHANGED <<sources, content, notCall>>

CallNext == CallReturns \/ CallThrows

SpecCall == CallInit /\ [][CallNext]_vars

(***************************************************************************)
(* Properties of the generated content.                                    *)
(***************************************************************************)
RawChars == {"<", ">", "\"", "'"}

\* C12: every text of the data file that is interpolated into the content
\* (descriptions, benefits, suitable_for, pose names, titles, bodies and
\* the source names of the attribution line) is the escapeHtml of the text
\* it was computed from, and holds no raw < > " or '.
C12_InputEscapedOnce ==
  pc = "return" =>
    \A i \in DOMAIN content :
      content[i].origin = "input" =>
        /\ content[i].text = EscapeHtml(content[i].raw)
        /\ \A j \in DOMAIN content[i].text : content[i].text[j] \notin RawChars

\* if the source is used by the combine loop of the section
Contributing(sec, source) ==
  IF sec \in {"types", "poses"} THEN source.data.kind = "array"
  ELSE source.data.kind = "object"

\* the names of the contributing sources, in input order, joined by ", "
ContributingNames(sec, srcs) ==
  LET RECURSIVE Go(_)
      Go(i) == IF i > Len(srcs) THEN <<>>
               ELSE (IF Contributing(sec, srcs[i])
                       THEN <<CharsOf(srcs[i].source)>> ELSE <<>>) \o Go(i + 1)
  IN JoinChars(Go(1), <<",", " ">>)

\* C15: the content of a section ends with its only attribution line, and
\* the line lists the names of the sources that contributed data, in input
\* order and joined by ", "; a source whose data field is missing or
\* malformed is not listed.
C15_AttributionOfContributors ==
  pc = "return" =>
    /\ content[Len(content)].template = AttributionTemplate
    /\ Cardinality({i \in DOMAIN content :
                      content[i].template = AttributionTemplate}) = 1
    /\ content[Len(content)].text = ContributingNames(section, sources)

(***************************************************************************)
(* updateGuideContent: one run of the script.  SECTIONS is the list of the *)
(* source, or that list with one more name that generateSectionContent has *)
(* no case for.                                                            *)
(***************************************************************************)
SECTIONS == <<"types", "poses", "benefits", "tips">>

\* SECTIONS with a section added to the configuration after the first one
ExtendedSections == <<"types", UnknownSection, "poses", "benefits", "tips">>

\* the states of a file <section>.json
AbsentFile == [kind |-> "absent", value |-> <<>>]
UnparsableFile == [kind |-> "unparsable", value |-> <<>>]
JsonFile(value) == [kind |-> "json", value |-> value]

\* an array of sources with data for the section
SomeSources(sec) ==
  CASE sec = "poses" ->
         <<[source |-> "YJ",
            data |-> ArrayData(<<[name |-> Tree, description |-> "a<b",
                                  image_url |-> "", category |-> "seated"]>>)]>>
    [] sec = "benefits" ->
         <<[source |-> "YJ",
            data |-> [kind |-> "object", physical |-> <<>>, mental |-> <<>>,
                      general |-> <<"better sleep & mood.">>]]>>
    [] sec = "tips" ->
         <<[source |-> "YJ",
            data |-> [kind |-> "object", beginners |-> <<"don't rush">>,
                      practice |-> <<"breathe & relax">>, props |-> <<>>]]>>
    [] OTHER ->
         <<[source |-> "YJ",
            data |-> ArrayData(<<[name |-> Yin, description |-> "a<b",
                                  benefits |-> <<"x&y">>,
                                  suitable_for |-> <<>>]>>)]>>

\* what <section>.json may be when the run starts
DataFileStates(sec) ==
  IF sec = UnknownSection
    THEN {AbsentFile, JsonFile(SomeSources(sec))}
    ELSE {AbsentFile, UnparsableFile, JsonFile(<<>>), JsonFile(SomeSources(sec))}

\* the states of a file <section>.html
NoInclude == [state |-> "absent", content |-> <<>>]
OldInclude == [state |-> "old", content |-> <<>>]
WrittenInclude(text) == [state |-> "written", content |-> text]

\* scrapedData[section]: not assigned, or assigned a value
NotLoaded == [defined |-> FALSE, value |-> <<>>]
Loaded(value) == [defined |-> TRUE, value |-> value]

RunInit ==
  /\ pc = "load"
  /\ configured \in {SECTIONS, ExtendedSections}
  /\ dataFiles \in [Range(configured) -> UNION {DataFileStates(s) : s \in Range(configured)}]
  /\ \A s \in Range(configured) : dataFiles[s] \in DataFileStates(s)
  /\ scrapedData = [s \in Range(configured) |-> NotLoaded]
  /\ \E before \in {NoInclude, OldInclude} :
       includes = [s \in Range(configured) |-> before]
  /\ index = 1
  /\ generated = {}
  /\ errors = <<>>
  /\ templateRuns = 0
  /\ IdleExcept({"Run"})

\* JSON.parse(fs.readFileSync(filePath, 'utf8'))
ParseFile(file) ==
  IF file.kind = "unparsable" THEN Threw("Unexpected token")
  ELSE Returned(file.value)

\* a block without try: the error it throws leaves the loop
LeavesLoop(outcome) == outcome.threw

\* try { block } catch (error) { console.error(...) }: the error thrown by
\* the block does not leave the loop
Uncaught(outcome) == FALSE

\* the guard of the second loop written without its length test
HasDataAlways(data) == TRUE

\* if (scrapedData[section] && scrapedData[section].length > 0)
HasSectionData(data) == data.defined /\ Len(data.value) > 0

\* the include file opened for writing before its content is generated
IncludeTruncatedFirst(include, result) ==
  IF result.threw THEN WrittenInclude(<<>>) ELSE WrittenInclude(result.value)

\* const content = generateSectionContent(...); fs.writeFileSync(outputPath,
\* content): the file is written after the content has been returned
IncludeAfter(include, result) ==
  IF result.threw THEN include ELSE WrittenInclude(result.value)

\* the position after one iteration of a loop over SECTIONS
AfterIteration(outcome, following) ==
  IF Uncaught(outcome) THEN pc' = "aborted" /\ UNCHANGED index
  ELSE IF index < Len(configured) THEN index' = index + 1 /\ UNCHANGED pc
  ELSE index' = 1 /\ pc' = following

\* for (const section of SECTIONS): one iteration of the loading loop
RunLoad ==
  /\ pc = "load"
  /\ LET sec == configured[index]
         parsed == ParseFile(dataFiles[sec])
     IN IF dataFiles[sec].kind = "absent"
          THEN /\ scrapedData' = [scrapedData EXCEPT ![sec] = Loaded(<<>>)]
               /\ UNCHANGED errors
               /\ AfterIteration(Returned(<<>>), "generate")
          ELSE /\ IF parsed.threw
                    THEN /\ errors' = Append(errors, parsed.message)
                         /\ UNCHANGED scrapedData
                    ELSE /\ scrapedData' =
                              [scrapedData EXCEPT ![sec] = Loaded(parsed.value)]
                         /\ UNCHANGED errors
               /\ AfterIteration(parsed, "generate")
  /\ UNCHANGED <<configured, dataFiles, includes, generated, templateRuns>>
  /\ UNCHANGED notRun

\* for (const section of SECTIONS): one iteration of the generating loop
RunGenerate ==
  /\ pc = "generate"
  /\ LET sec == configured[index]
         data == scrapedData[sec]
         result == GenerateSectionContent(sec, data.value)
     IN IF HasSectionData(data)
          THEN /\ generated' = generated \cup {sec}
               /\ IF result.threw
                    THEN errors' = Append(errors, result.message)
                    ELSE UNCHANGED errors
               /\ includes' = [includes EXCEPT ![sec] = IncludeAfter(@, result)]
               /\ AfterIteration(result, "template")
          ELSE /\ UNCHANGED <<generated, errors, includes>>
               /\ AfterIteration(Returned(<<>>), "template")
  /\ UNCHANGED <<configured, dataFiles, scrapedData, templateRuns>>
  /\ UNCHANGED notRun

\* updateGuideTemplate(); the run is completed
RunUpdateTemplate ==
  /\ pc = "template"
  /\ templateRuns' = templateRuns + 1
  /\ pc' = "done"
  /\ UNCHANGED <<configured, dataFiles, scrapedData, includes, index,
                 generated, errors>>
  /\ UNCHANGED notRun

RunNext == RunLoad \/ RunGenerate \/ RunUpdateTemplate

SpecRun == RunInit /\ [][RunNext]_vars

(***************************************************************************)
(* Properties of a run.                                                    *)
(***************************************************************************)
\* the data file is absent, unparsable or holds an empty list
MissingData(file) ==
  file.kind \in {"absent", "unparsable"} \/ file.value = <<>>

\* the include file of the section holds the content generated from its data
WrittenFromData(sec) ==
  /\ sec \in generated
  /\ includes[sec] =
       WrittenInclude(GenerateSectionContent(sec, dataFiles[sec].value).value)

\* no error has left a loop of the run
RunGoesOn == pc # "aborted"

\* C13: a section of SECTIONS whose data file is absent, unparsable or an
\* empty list gets no generateSectionContent call and no include file
\* written, the run goes on to its end, and every other section of SECTIONS
\* that has data is generated and written.
C13_MissingDataSkipped ==
  /\ RunGoesOn
  /\ pc = "done" =>
       /\ templateRuns = 1
       /\ \A s \in Range(SECTIONS) :
            MissingData(dataFiles[s]) =>
              /\ s \notin generated
              /\ includes[s].state # "written"
              /\ \A t \in Range(SECTIONS) \ {s} :
                   ~MissingData(dataFiles[t]) => WrittenFromData(t)

\* C13 witness: a run has ended with the three kinds of missing data and
\* one section written
C13_Witness ==
  /\ pc = "done"
  /\ configured = SECTIONS
  /\ dataFiles["types"] = AbsentFile
  /\ dataFiles["poses"] = UnparsableFile
  /\ dataFiles["benefits"] = JsonFile(<<>>)
  /\ includes["benefits"] = OldInclude
  /\ WrittenFromData("tips")
  /\ generated = {"tips"}

\* C14: in a run whose configuration holds a name outside {types, poses,
\* benefits, tips} with data, the call of generateSectionContent for that
\* name fails with the error "Unknown section: <name>", that call only:
\* nothing is written for the name, the run goes on to its end, and every
\* section of SECTIONS that has data is generated and written.
C14_UnknownSectionFailsAlone ==
  /\ RunGoesOn
  /\ (/\ pc = "done"
      /\ UnknownSection \in Range(configured)
      /\ ~MissingData(dataFiles[UnknownSection])) =>
       /\ UnknownSection \in generated
       /\ includes[UnknownSection].state # "written"
       /\ errors # <<>>
       /\ errors[Len(errors)] = "Unknown section: " \o UnknownSection
       /\ Cardinality({i \in DOMAIN errors :
             errors[i] = "Unknown section: " \o UnknownSection}) = 1
       /\ templateRuns = 1
       /\ \A t \in Range(SECTIONS) :
            ~MissingData(dataFiles[t]) => WrittenFromData(t)

\* C14 witness: a run has ended in which the unknown section had data and
\* the sections after it were written
C14_Witness ==
  /\ pc = "done"
  /\ configured = ExtendedSections
  /\ dataFiles[UnknownSection] = JsonFile(SomeSources(UnknownSection))
  /\ errors = <<"Unknown section: videos">>
  /\ \A t \in Range(SECTIONS) : WrittenFromData(t)

(***************************************************************************)
(* The scraper (src/js/video-player.js): the process* functions that turn  *)
(* the elements of a page into records and buckets.  A text is the         *)
(* sequence of its characters.  An element of a page is modelled by what   *)
(* the processor reads of it: the text of a heading and the texts of the   *)
(* paragraphs up to the next heading; the title, paragraphs, image source  *)
(* and difficulty of a pose card; the tag and the text of a li or p.       *)
(***************************************************************************)
\* the number of elements of a page
MaxElements == 2

ScraperChars ==
  "mind" :> <<"m", "i", "n", "d">>
  @@ "stress" :> <<"s", "t", "r", "e", "s", "s">>
  @@ "anxiety" :> <<"a", "n", "x", "i", "e", "t", "y">>
  @@ "depress" :> <<"d", "e", "p", "r", "e", "s", "s">>
  @@ "mood" :> <<"m", "o", "o", "d">>
  @@ "focus" :> <<"f", "o", "c", "u", "s">>
  @@ "relax" :> <<"r", "e", "l", "a", "x">>
  @@ "calm" :> <<"c", "a", "l", "m">>
  @@ "mental" :> <<"m", "e", "n", "t", "a", "l">>
  @@ "body" :> <<"b", "o", "d", "y">>
  @@ "muscle" :> <<"m", "u", "s", "c", "l", "e">>
  @@ "strength" :> <<"s", "t", "r", "e", "n", "g", "t", "h">>
  @@ "flexib" :> <<"f", "l", "e", "x", "i", "b">>
  @@ "heart" :> <<"h", "e", "a", "r", "t">>
  @@ "blood" :> <<"b", "l", "o", "o", "d">>
  @@ "pressure" :> <<"p", "r", "e", "s", "s", "u", "r", "e">>
  @@ "pain" :> <<"p", "a", "i", "n">>
  @@ "posture" :> <<"p", "o", "s", "t", "u", "r", "e">>
  @@ "balance" :> <<"b", "a", "l", "a", "n", "c", "e">>
  @@ "bone" :> <<"b", "o", "n", "e">>
  @@ "benefit" :> <<"b", "e", "n", "e", "f", "i", "t">>
  @@ "improve" :> <<"i", "m", "p", "r", "o", "v", "e">>
  @@ "increase" :> <<"i", "n", "c", "r", "e", "a", "s", "e">>
  @@ "enhance" :> <<"e", "n", "h", "a", "n", "c", "e">>
  @@ "reduce" :> <<"r", "e", "d", "u", "c", "e">>
  @@ "lower" :> <<"l", "o", "w", "e", "r">>
  @@ "help" :> <<"h", "e", "l", "p">>
  @@ "beginner" :> <<"b", "e", "g", "i", "n", "n", "e", "r">>
  @@ "start" :> <<"s", "t", "a", "r", "t">>
  @@ "new to yoga" :> <<"n", "e", "w", " ", "t", "o", " ", "y", "o", "g",
       "a">>
  @@ "first time" :> <<"f", "i", "r", "s", "t", " ", "t", "i", "m", "e">>
  @@ "basic" :> <<"b", "a", "s", "i", "c">>
  @@ "prop" :> <<"p", "r", "o", "p">>
  @@ "block" :> <<"b", "l", "o", "c", "k">>
  @@ "strap" :> <<"s", "t", "r", "a", "p">>
  @@ "blanket" :> <<"b", "l", "a", "n", "k", "e", "t">>
  @@ "bolster" :> <<"b", "o", "l", "s", "t", "e", "r">>
  @@ "chair" :> <<"c", "h", "a", "i", "r">>
  @@ "wall" :> <<"w", "a", "l", "l">>
  @@ "practice" :> <<"p", "r", "a", "c", "t", "i", "c", "e">>
  @@ "breathe" :> <<"b", "r", "e", "a", "t", "h", "e">>
  @@ "alignment" :> <<"a", "l", "i", "g", "n", "m", "e", "n", "t">>
  @@ "pose" :> <<"p", "o", "s", "e">>
  @@ "asana" :> <<"a", "s", "a", "n", "a">>
  @@ "technique" :> <<"t", "e", "c", "h", "n", "i", "q", "u", "e">>
  @@ "form" :> <<"f", "o", "r", "m">>
  @@ "position" :> <<"p", "o", "s", "i", "t", "i", "o", "n">>
  @@ "strengthen" :> <<"s", "t", "r", "e", "n", "g", "t", "h", "e", "n">>
  @@ "boost" :> <<"b", "o", "o", "s", "t">>
  @@ "relieve" :> <<"r", "e", "l", "i", "e", "v", "e">>
  @@ "good for" :> <<"g", "o", "o", "d", " ", "f", "o", "r">>
  @@ "great for" :> <<"g", "r", "e", "a", "t", " ", "f", "o", "r">>
  @@ "ideal for" :> <<"i", "d", "e", "a", "l", " ", "f", "o", "r">>
  @@ "perfect for" :> <<"p", "e", "r", "f", "e", "c", "t", " ", "f", "o",
       "r">>
  @@ "recommended for" :> <<"r", "e", "c", "o", "m", "m", "e", "n", "d",
       "e", "d", " ", "f", "o", "r">>
  @@ "suitable for" :> <<"s", "u", "i", "t", "a", "b", "l", "e", " ", "f",
       "o", "r">>
  @@ "best for" :> <<"b", "e", "s", "t", " ", "f", "o", "r">>
  @@ "mountain" :> <<"m", "o", "u", "n", "t", "a", "i", "n">>
  @@ "warrior" :> <<"w", "a", "r", "r", "i", "o", "r">>
  @@ "triangle" :> <<"t", "r", "i", "a", "n", "g", "l", "e">>
  @@ "tree" :> <<"t", "r", "e", "e">>
  @@ "eagle" :> <<"e", "a", "g", "l", "e">>
  @@ "goddess" :> <<"g", "o", "d", "d", "e", "s", "s">>
  @@ "extended" :> <<"e", "x", "t", "e", "n", "d", "e", "d">>
  @@ "standing" :> <<"s", "t", "a", "n", "d", "i", "n", "g">>
  @@ "standing pose" :> <<"s", "t", "a", "n", "d", "i", "n", "g", " ", "p",
       "o", "s", "e">>
  @@ "standing position" :> <<"s", "t", "a", "n", "d", "i", "n", "g", " ",
       "p", "o", "s", "i", "t", "i", "o", "n">>
  @@ "stand on" :> <<"s", "t", "a", "n", "d", " ", "o", "n">>
  @@ "standing with" :> <<"s", "t", "a", "n", "d", "i", "n", "g", " ", "w",
       "i", "t", "h">>
  @@ "seated" :> <<"s", "e", "a", "t", "e", "d">>
  @@ "sitting" :> <<"s", "i", "t", "t", "i", "n", "g">>
  @@ "lotus" :> <<"l", "o", "t", "u", "s">>
  @@ "sukhasana" :> <<"s", "u", "k", "h", "a", "s", "a", "n", "a">>
  @@ "butterfly" :> <<"b", "u", "t", "t", "e", "r", "f", "l", "y">>
  @@ "hero" :> <<"h", "e", "r", "o">>
  @@ "cobbler" :> <<"c", "o", "b", "b", "l", "e", "r">>
  @@ "staff" :> <<"s", "t", "a", "f", "f">>
  @@ "dandasana" :> <<"d", "a", "n", "d", "a", "s", "a", "n", "a">>
  @@ "seated pose" :> <<"s", "e", "a", "t", "e", "d", " ", "p", "o", "s",
       "e">>
  @@ "sitting pose" :> <<"s", "i", "t", "t", "i", "n", "g", " ", "p", "o",
       "s", "e">>
  @@ "seat on" :> <<"s", "e", "a", "t", " ", "o", "n">>
  @@ "sit with" :> <<"s", "i", "t", " ", "w", "i", "t", "h">>
  @@ "backbend" :> <<"b", "a", "c", "k", "b", "e", "n", "d">>
  @@ "cobra" :> <<"c", "o", "b", "r", "a">>
  @@ "up-dog" :> <<"u", "p", "-", "d", "o", "g">>
  @@ "upward dog" :> <<"u", "p", "w", "a", "r", "d", " ", "d", "o", "g">>
  @@ "upward-facing" :> <<"u", "p", "w", "a", "r", "d", "-", "f", "a", "c",
       "i", "n", "g">>
  @@ "camel" :> <<"c", "a", "m", "e", "l">>
  @@ "bridge" :> <<"b", "r", "i", "d", "g", "e">>
  @@ "wheel" :> <<"w", "h", "e", "e", "l">>
  @@ "bow" :> <<"b", "o", "w">>
  @@ "locust" :> <<"l", "o", "c", "u", "s", "t">>
  @@ "bend backward" :> <<"b", "e", "n", "d", " ", "b", "a", "c", "k", "w",
       "a", "r", "d">>
  @@ "arch your back" :> <<"a", "r", "c", "h", " ", "y", "o", "u", "r",
       " ", "b", "a", "c", "k">>
  @@ "bend back" :> <<"b", "e", "n", "d", " ", "b", "a", "c", "k">>
  @@ "inversion" :> <<"i", "n", "v", "e", "r", "s", "i", "o", "n">>
  @@ "headstand" :> <<"h", "e", "a", "d", "s", "t", "a", "n", "d">>
  @@ "handstand" :> <<"h", "a", "n", "d", "s", "t", "a", "n", "d">>
  @@ "shoulder stand" :> <<"s", "h", "o", "u", "l", "d", "e", "r", " ",
       "s", "t", "a", "n", "d">>
  @@ "forearm stand" :> <<"f", "o", "r", "e", "a", "r", "m", " ", "s", "t",
       "a", "n", "d">>
  @@ "plow" :> <<"p", "l", "o", "w">>
  @@ "dolphin" :> <<"d", "o", "l", "p", "h", "i", "n">>
  @@ "downward dog" :> <<"d", "o", "w", "n", "w", "a", "r", "d", " ", "d",
       "o", "g">>
  @@ "downward-facing" :> <<"d", "o", "w", "n", "w", "a", "r", "d", "-",
       "f", "a", "c", "i", "n", "g">>
  @@ "upside down" :> <<"u", "p", "s", "i", "d", "e", " ", "d", "o", "w",
       "n">>
  @@ "feet above" :> <<"f", "e", "e", "t", " ", "a", "b", "o", "v", "e">>
  @@ "head below" :> <<"h", "e", "a", "d", " ", "b", "e", "l", "o", "w">>
  @@ "References" :> <<"R", "e", "f", "e", "r", "e", "n", "c", "e", "s">>
  @@ "  Hatha Yoga " :> <<" ", " ", "H", "a", "t", "h", "a", " ", "Y", "o",
       "g", "a", " ">>
  @@ "Key References" :> <<"K", "e", "y", " ", "R", "e", "f", "e", "r",
       "e", "n", "c", "e", "s">>
  @@ "Om" :> <<"O", "m">>
  @@ "   " :> <<" ", " ", " ">>
  @@ "Yin Yoga" :> <<"Y", "i", "n", " ", "Y", "o", "g", "a">>
  @@ "It helps reduce stress. Good for beginners." :> <<"I", "t", " ", "h",
       "e", "l", "p", "s", " ", "r", "e", "d", "u", "c", "e", " ",
       "s", "t", "r", "e", "s", "s", ".", " ", "G", "o", "o", "d",
       " ", "f", "o", "r", " ", "b", "e", "g", "i", "n", "n", "e",
       "r", "s", ".">>
  @@ "See the sources." :> <<"S", "e", "e", " ", "t", "h", "e", " ", "s",
       "o", "u", "r", "c", "e", "s", ".">>
  @@ "A sound." :> <<"A", " ", "s", "o", "u", "n", "d", ".">>
  @@ " Tree Pose " :> <<" ", "T", "r", "e", "e", " ", "P", "o", "s", "e",
       " ">>
  @@ "Seated Tree" :> <<"S", "e", "a", "t", "e", "d", " ", "T", "r", "e",
       "e">>
  @@ "Crow Pose" :> <<"C", "r", "o", "w", " ", "P", "o", "s", "e">>
  @@ "Bridge Headstand" :> <<"B", "r", "i", "d", "g", "e", " ", "H", "e",
       "a", "d", "s", "t", "a", "n", "d">>
  @@ "Pose" :> <<"P", "o", "s", "e">>
  @@ "Stand on one leg." :> <<"S", "t", "a", "n", "d", " ", "o", "n", " ",
       "o", "n", "e", " ", "l", "e", "g", ".">>
  @@ "A seated pose. Then go upside down." :> <<"A", " ", "s", "e", "a",
       "t", "e", "d", " ", "p", "o", "s", "e", ".", " ", "T", "h",
       "e", "n", " ", "g", "o", " ", "u", "p", "s", "i", "d", "e",
       " ", "d", "o", "w", "n", ".">>
  @@ "Balance on the hands." :> <<"B", "a", "l", "a", "n", "c", "e", " ",
       "o", "n", " ", "t", "h", "e", " ", "h", "a", "n", "d", "s",
       ".">>
  @@ "t.jpg" :> <<"t", ".", "j", "p", "g">>
  @@ "easy" :> <<"e", "a", "s", "y">>
  @@ "Calms the mind and body" :> <<"C", "a", "l", "m", "s", " ", "t", "h",
       "e", " ", "m", "i", "n", "d", " ", "a", "n", "d", " ", "b",
       "o", "d", "y">>
  @@ "Builds muscle strength" :> <<"B", "u", "i", "l", "d", "s", " ", "m",
       "u", "s", "c", "l", "e", " ", "s", "t", "r", "e", "n", "g",
       "t", "h">>
  @@ "Better sleep" :> <<"B", "e", "t", "t", "e", "r", " ", "s", "l", "e",
       "e", "p">>
  @@ "Yoga helps reduce stress. It builds bone. Drink water." :> <<"Y",
       "o", "g", "a", " ", "h", "e", "l", "p", "s", " ", "r", "e",
       "d", "u", "c", "e", " ", "s", "t", "r", "e", "s", "s", ".",
       " ", "I", "t", " ", "b", "u", "i", "l", "d", "s", " ", "b",
       "o", "n", "e", ".", " ", "D", "r", "i", "n", "k", " ", "w",
       "a", "t", "e", "r", ".">>
  @@ "It can improve sleep. It may lower blood pressure." :> <<"I", "t",
       " ", "c", "a", "n", " ", "i", "m", "p", "r", "o", "v", "e",
       " ", "s", "l", "e", "e", "p", ".", " ", "I", "t", " ", "m",
       "a", "y", " ", "l", "o", "w", "e", "r", " ", "b", "l", "o",
       "o", "d", " ", "p", "r", "e", "s", "s", "u", "r", "e", ".">>
  @@ "Start with a block" :> <<"S", "t", "a", "r", "t", " ", "w", "i", "t",
       "h", " ", "a", " ", "b", "l", "o", "c", "k">>
  @@ "Use a strap for this pose" :> <<"U", "s", "e", " ", "a", " ", "s",
       "t", "r", "a", "p", " ", "f", "o", "r", " ", "t", "h", "i",
       "s", " ", "p", "o", "s", "e">>
  @@ "Breathe deeply" :> <<"B", "r", "e", "a", "t", "h", "e", " ", "d",
       "e", "e", "p", "l", "y">>
  @@ "Drink water" :> <<"D", "r", "i", "n", "k", " ", "w", "a", "t", "e",
       "r">>

\* the characters of a string of the model
TextOf(s) == IF s \in DOMAIN ScraperChars THEN ScraperChars[s] ELSE Chars[s]

WordsOf(strings) == {TextOf(s) : s \in strings}

\* text.match(/a|b|c/i): one of the words occurs in the text, in any case
Matches(text, words) ==
  \E w \in words : \E p \in DOMAIN text : WordAt(text, p, w)

\* text.includes(word)
Includes(text, word) ==
  \E p \in 1..(Len(text) - Len(word) + 1) :
    SubSeq(text, p, p + Len(word) - 1) = word

RECURSIVE SplitSentences(_)
\* text.split(/\.\s+/)
SplitSentences(text) ==
  LET dots == {i \in 1..(Len(text) - 1) :
                 text[i] = "." /\ text[i + 1] \in SpaceChars}
  IN IF dots = {} THEN <<text>>
     ELSE LET dot == CHOOSE i \in dots : \A j \in dots : i <= j
              rest == {i \in (dot + 1)..Len(text) : text[i] \notin SpaceChars}
              from == IF rest = {} THEN Len(text) + 1
                      ELSE CHOOSE i \in rest : \A j \in rest : i <= j
          IN <<SubSeq(text, 1, dot - 1)>>
               \o SplitSentences(SubSeq(text, from, Len(text)))

\* benefitWords
BenefitWords ==
  WordsOf({"improve", "increase", "enhance", "strengthen", "boost", "benefit",
   "help", "reduce", "relieve", "lower", "calm"})

\* suitablePhrases
SuitablePhrases ==
  WordsOf({"good for", "great for", "ideal for", "perfect for",
   "recommended for", "suitable for", "best for"})

\* the sentences that hold one of the words, trimmed and ended by a dot
SentencesWith(text, words) ==
  LET sentences == SplitSentences(text)
      RECURSIVE Go(_)
      Go(i) == IF i > Len(sentences) THEN <<>>
               ELSE (IF Matches(sentences[i], words)
                       THEN <<Trim(sentences[i]) \o <<".">> >> ELSE <<>>)
                    \o Go(i + 1)
  IN Go(1)

\* extractBenefits(text)
ExtractBenefits(text) == SentencesWith(text, BenefitWords)

\* extractSuitableFor(text)
ExtractSuitableFor(text) == SentencesWith(text, SuitablePhrases)

\* title.match(/mountain|...|standing/i)
StandingTitle ==
  WordsOf({"mountain", "warrior", "triangle", "chair", "tree", "eagle",
   "goddess", "extended", "standing"})

\* description.match(/standing pose|...|standing with/i)
StandingDescription ==
  WordsOf({"standing pose", "standing position", "stand on", "standing with"})

\* title.match(/seated|...|dandasana/i)
SeatedTitle ==
  WordsOf({"seated", "sitting", "lotus", "sukhasana", "butterfly", "hero",
   "cobbler", "staff", "dandasana"})

\* description.match(/seated pose|...|sit with/i)
SeatedDescription ==
  WordsOf({"seated pose", "sitting pose", "seat on", "sit with"})

\* title.match(/backbend|...|locust/i)
BackbendTitle ==
  WordsOf({"backbend", "cobra", "up-dog", "upward dog", "upward-facing", "camel",
   "bridge", "wheel", "bow", "locust"})

\* description.match(/backbend|...|bend back/i)
BackbendDescription ==
  WordsOf({"backbend", "bend backward", "arch your back", "bend back"})

\* title.match(/inversion|...|downward-facing/i)
InversionTitle ==
  WordsOf({"inversion", "headstand", "handstand", "shoulder stand",
   "forearm stand", "plow", "dolphin", "downward dog", "downward-facing"})

\* description.match(/inversion|...|head below/i)
InversionDescription ==
  WordsOf({"inversion", "upside down", "feet above", "head below"})

\* determinePoseCategory with the seated test before the standing test
DeterminePoseCategorySeatedFirst(title, description) ==
  IF Matches(title, SeatedTitle) \/ Matches(description, SeatedDescription)
    THEN "seated"
  ELSE IF Matches(title, StandingTitle)
          \/ Matches(description, StandingDescription)
    THEN "standing"
  ELSE IF Matches(title, BackbendTitle)
          \/ Matches(description, BackbendDescription)
    THEN "backbends"
  ELSE IF Matches(title, InversionTitle)
          \/ Matches(description, InversionDescription)
    THEN "inversions"
  ELSE "other"

\* determinePoseCategory(title, description)
DeterminePoseCategory(title, description) ==
  IF Matches(title, StandingTitle)
     \/ Matches(description, StandingDescription)
    THEN "standing"
  ELSE IF Matches(title, SeatedTitle)
          \/ Matches(description, SeatedDescription)
    THEN "seated"
  ELSE IF Matches(title, BackbendTitle)
          \/ Matches(description, BackbendDescription)
    THEN "backbends"
  ELSE IF Matches(title, InversionTitle)
          \/ Matches(description, InversionDescription)
    THEN "inversions"
  ELSE "other"

\* description += text + ' ' for every following paragraph with a text
CollectDescription(paragraphs) ==
  LET RECURSIVE Go(_)
      Go(i) == IF i > Len(paragraphs) THEN <<>>
               ELSE (IF Trim(paragraphs[i]) # <<>>
                       THEN Trim(paragraphs[i]) \o <<" ">> ELSE <<>>)
                    \o Go(i + 1)
  IN Go(1)

\* the record pushed for a heading
TypeRecord(title, description) ==
  [name |-> title,
   description |-> Trim(description),
   benefits |-> ExtractBenefits(description),
   suitable_for |-> ExtractSuitableFor(description)]

\* processYogaJournalTypes: the callback of element.find('h2, h3').each
JournalTypesHeading(records, heading) ==
  LET title == Trim(heading.title)
      description == CollectDescription(heading.paragraphs)
  IN IF title = <<>> \/ Len(title) < 3 \/ Includes(title, TextOf("References"))
       THEN records
     ELSE IF title # <<>> /\ description # <<>>
       THEN Append(records, TypeRecord(title, description))
     ELSE records

\* processYogaAllianceStyles: the callback of element.find('h3, h4').each
AllianceStylesHeading(records, heading) ==
  LET title == Trim(heading.title)
      description == CollectDescription(heading.paragraphs)
  IN IF title = <<>> \/ Len(title) < 3
       THEN records
     ELSE IF title # <<>> /\ description # <<>>
       THEN Append(records, TypeRecord(title, description))
     ELSE records

\* processYogaJournalPoses: the callback of
\* element.find('article, .pose-card, .pose-block').each
JournalPosesElement(poses, poseEl) ==
  LET title == Trim(poseEl.title)
      description == CollectDescription(poseEl.paragraphs)
  IN IF title # <<>>
       THEN Append(poses,
              [name |-> title,
               description |-> Trim(description),
               image_url |-> poseEl.image,
               difficulty |-> Trim(poseEl.difficulty),
               benefits |-> ExtractBenefits(description),
               category |-> DeterminePoseCategory(title, description)])
       ELSE poses

\* text.match(/mind|...|mental/i)
MentalWords ==
  WordsOf({"mind", "stress", "anxiety", "depress", "mood", "focus", "relax",
   "calm", "mental"})

\* text.match(/body|...|bone/i)
PhysicalWords ==
  WordsOf({"body", "muscle", "strength", "flexib", "heart", "blood", "pressure",
   "pain", "posture", "balance", "bone"})

\* sentence.match(/benefit|...|help/i)
BenefitSentenceWords ==
  WordsOf({"benefit", "improve", "increase", "enhance", "reduce", "lower", "help"})

\* the bucket of a benefit text with the unmatched texts dropped
BenefitBucketOrNone(text) ==
  IF Matches(text, MentalWords) THEN "mental"
  ELSE IF Matches(text, PhysicalWords) THEN "physical"
  ELSE "none"

\* the if / else if / else of processHarvardHealthBenefits
BenefitBucket(text) ==
  IF Matches(text, MentalWords) THEN "mental"
  ELSE IF Matches(text, PhysicalWords) THEN "physical"
  ELSE "general"

\* buckets[bucket].push(text); nothing is pushed when there is no bucket
Push(buckets, bucket, text) ==
  IF bucket \in DOMAIN buckets
    THEN [buckets EXCEPT ![bucket] = Append(@, text)]
    ELSE buckets

\* processHarvardHealthBenefits: the callback of element.find('li').each
HarvardListItem(buckets, li) ==
  LET text == Trim(li.text) IN
  IF text # <<>> THEN Push(buckets, BenefitBucket(text), text) ELSE buckets

\* processHarvardHealthBenefits: the callback of element.find('p').each
HarvardParagraph(buckets, p) ==
  LET sentences == SplitSentences(Trim(p.text))
      RECURSIVE Go(_, _)
      Go(b, i) ==
        IF i > Len(sentences) THEN b
        ELSE Go(IF Matches(sentences[i], BenefitSentenceWords)
                  THEN Push(b, BenefitBucket(sentences[i]),
                            Trim(sentences[i]) \o <<".">>)
                  ELSE b,
                i + 1)
  IN Go(buckets, 1)

\* text.match(/beginner|...|basic/i)
BeginnerWords ==
  WordsOf({"beginner", "start", "new to yoga", "first time", "basic"})

\* text.match(/prop|...|wall/i)
PropWords ==
  WordsOf({"prop", "block", "strap", "blanket", "bolster", "chair", "wall"})

\* text.match(/practice|...|position/i)
PracticeWords ==
  WordsOf({"practice", "breathe", "alignment", "pose", "asana", "technique",
   "form", "body", "position"})

\* the bucket of a tip text with the unmatched texts put under practice
TipBucketOrPractice(text) ==
  IF Matches(text, BeginnerWords) THEN "beginners"
  ELSE IF Matches(text, PropWords) THEN "props"
  ELSE "practice"

\* the if / else if / else if of processYogaInternationalTips
TipBucket(text) ==
  IF Matches(text, BeginnerWords) THEN "beginners"
  ELSE IF Matches(text, PropWords) THEN "props"
  ELSE IF Matches(text, PracticeWords) THEN "practice"
  ELSE "none"

\* processYogaInternationalTips: the callback of element.find('p, li').each
TipsElement(buckets, el) ==
  LET text == Trim(el.text) IN
  IF text = <<>> THEN buckets ELSE Push(buckets, TipBucket(text), text)

(***************************************************************************)
(* The pages the processors are run on, and one run of a processor.        *)
(***************************************************************************)
Heading(title, paragraphs) ==
  [title |-> TextOf(title),
   paragraphs |-> [i \in DOMAIN paragraphs |-> TextOf(paragraphs[i])]]

\* the headings of a page of types or styles
HeadingElements ==
  {Heading("  Hatha Yoga ", <<"It helps reduce stress. Good for beginners.">>),
   Heading("Key References", <<"See the sources.">>),
   Heading("Om", <<"A sound.">>),
   Heading("   ", <<"A sound.">>),
   Heading("Yin Yoga", <<"   ">>)}

PoseCard(title, paragraphs, image, difficulty) ==
  [title |-> TextOf(title),
   paragraphs |-> [i \in DOMAIN paragraphs |-> TextOf(paragraphs[i])],
   image |-> TextOf(image),
   difficulty |-> TextOf(difficulty)]

\* the pose cards of a page of poses
PoseElements ==
  {PoseCard(" Tree Pose ", <<"Stand on one leg.">>, "t.jpg", "easy"),
   PoseCard("Seated Tree", <<>>, "", ""),
   PoseCard("Bridge Headstand", <<>>, "", ""),
   PoseCard("Pose", <<"A seated pose. Then go upside down.">>, "", ""),
   PoseCard("Crow Pose", <<"Balance on the hands.">>, "", ""),
   PoseCard("Om", <<"A sound.">>, "", ""),
   PoseCard("Key References", <<"See the sources.">>, "", ""),
   PoseCard("   ", <<"A sound.">>, "", "")}

Element(tag, text) == [tag |-> tag, text |-> TextOf(text)]

\* the li and p elements of a page of benefits
BenefitElements ==
  {Element("li", "Calms the mind and body"),
   Element("li", "Builds muscle strength"),
   Element("li", "Better sleep"),
   Element("li", "   "),
   Element("p", "Yoga helps reduce stress. It builds bone. Drink water."),
   Element("p", "It can improve sleep. It may lower blood pressure.")}

\* the p and li elements of a page of tips
TipElements ==
  {Element("p", "Start with a block"),
   Element("li", "Use a strap for this pose"),
   Element("p", "Breathe deeply"),
   Element("li", "Drink water"),
   Element("p", "   ")}

Processors ==
  {"processYogaJournalTypes", "processYogaAllianceStyles",
   "processYogaJournalPoses", "processHarvardHealthBenefits",
   "processYogaInternationalTips"}

\* the elements a page of the processor is made of
ElementsOf(proc) ==
  CASE proc = "processYogaJournalPoses" -> PoseElements
    [] proc = "processHarvardHealthBenefits" -> BenefitElements
    [] proc = "processYogaInternationalTips" -> TipElements
    [] OTHER -> HeadingElements

\* element.find(tag): the elements of the page with the tag, in page order
Find(elements, tag) ==
  LET RECURSIVE Go(_)
      Go(i) == IF i > Len(elements) THEN <<>>
               ELSE (IF elements[i].tag = tag THEN <<elements[i]>> ELSE <<>>)
                    \o Go(i + 1)
  IN Go(1)

\* the value a processor starts from
EmptyResult(proc) ==
  CASE proc = "processHarvardHealthBenefits" ->
         [physical |-> <<>>, mental |-> <<>>, general |-> <<>>]
    [] proc = "processYogaInternationalTips" ->
         [beginners |-> <<>>, practice |-> <<>>, props |-> <<>>]
    [] OTHER -> <<>>

ScrapeInit ==
  /\ processor \in Processors
  /\ page \in UNION {[1..k -> ElementsOf(processor)] : k \in 1..MaxElements}
  /\ pc = IF processor = "processHarvardHealthBenefits"
            THEN (IF Find(page, "li") # <<>> THEN "li" ELSE "p")
            ELSE "each"
  /\ cursor = 1
  /\ collected = EmptyResult(processor)
  /\ IdleExcept({"Scrape"})

\* the position after the callback of the cursor-th of the elements
AfterEach(elements, following) ==
  IF cursor < Len(elements) THEN cursor' = cursor + 1 /\ UNCHANGED pc
  ELSE cursor' = 1 /\ pc' = following

\* processYogaJournalTypes: one callback
JournalTypesEach ==
  /\ processor = "processYogaJournalTypes" /\ pc = "each"
  /\ collected' = JournalTypesHeading(collected, page[cursor])
  /\ AfterEach(page, "return")
  /\ UNCHANGED <<processor, page, notScrape>>

\* processYogaAllianceStyles: one callback
AllianceStylesEach ==
  /\ processor = "processYogaAllianceStyles" /\ pc = "each"
  /\ collected' = AllianceStylesHeading(collected, page[cursor])
  /\ AfterEach(page, "return")
  /\ UNCHANGED <<processor, page, notScrape>>

\* processYogaJournalPoses: one callback
JournalPosesEach ==
  /\ processor = "processYogaJournalPoses" /\ pc = "each"
  /\ collected' = JournalPosesElement(collected, page[cursor])
  /\ AfterEach(page, "return")
  /\ UNCHANGED <<processor, page, notScrape>>

\* processHarvardHealthBenefits: one callback of the loop over the li
HarvardLiEach ==
  /\ processor = "processHarvardHealthBenefits" /\ pc = "li"
  /\ collected' = HarvardListItem(collected, Find(page, "li")[cursor])
  /\ AfterEach(Find(page, "li"),
               IF Find(page, "p") # <<>> THEN "p" ELSE "return")
  /\ UNCHANGED <<processor, page, notScrape>>

\* processHarvardHealthBenefits: one callback of the loop over the p
HarvardPEach ==
  /\ processor = "processHarvardHealthBenefits" /\ pc = "p"
  /\ collected' = HarvardParagraph(collected, Find(page, "p")[cursor])
  /\ AfterEach(Find(page, "p"), "return")
  /\ UNCHANGED <<processor, page, notScrape>>

\* processYogaInternationalTips: one callback
TipsEach ==
  /\ processor = "processYogaInternationalTips" /\ pc = "each"
  /\ collected' = TipsElement(collected, page[cursor])
  /\ AfterEach(page, "return")
  /\ UNCHANGED <<processor, page, notScrape>>

ScrapeNext ==
  \/ JournalTypesEach
  \/ AllianceStylesEach
  \/ JournalPosesEach
  \/ HarvardLiEach
  \/ HarvardPEach
  \/ TipsEach

SpecScrape == ScrapeInit /\ [][ScrapeNext]_vars

(***************************************************************************)
(* Properties of the processors.                                           *)
(***************************************************************************)
\* the rules of the pose categories, in the order of the claim
PoseRules ==
  << [category |-> "standing", title |-> StandingTitle,
      description |-> StandingDescription],
     [category |-> "seated", title |-> SeatedTitle,
      description |-> SeatedDescription],
     [category |-> "backbends", title |-> BackbendTitle,
      description |-> BackbendDescription],
     [category |-> "inversions", title |-> InversionTitle,
      description |-> InversionDescription] >>

\* the category of the first rule whose title or description words match
FirstPoseRule(title, description) ==
  LET hits == {i \in DOMAIN PoseRules :
                 \/ Matches(title, PoseRules[i].title)
                 \/ Matches(description, PoseRules[i].description)}
  IN IF hits = {} THEN "other"
     ELSE PoseRules[CHOOSE i \in hits : \A j \in hits : i <= j].category

\* the rules of the tip buckets, in the order of the claim
TipRules ==
  << [bucket |-> "beginners", words |-> BeginnerWords],
     [bucket |-> "props", words |-> PropWords],
     [bucket |-> "practice", words |-> PracticeWords] >>

\* the buckets that hold the text
BucketsOf(buckets, text) ==
  {b \in DOMAIN buckets : \E i \in DOMAIN buckets[b] : buckets[b][i] = text}

\* all the texts of the buckets
BucketTexts(buckets) ==
  UNION {Range(buckets[b]) : b \in DOMAIN buckets}

\* C16: categorization is first-match-wins: a pose gets the category of the
\* first of standing, seated, backbends, inversions whose title or
\* description pattern matches, and other when none does; a benefit text
\* that matches the mental and the physical keywords is under mental; a
\* tip text is under the first of beginners, props, practice whose keywords
\* it matches; every text that was put in a bucket is in exactly one.
C16_FirstMatchWins ==
  pc = "return" =>
    /\ processor = "processYogaJournalPoses" =>
         \A i \in DOMAIN collected :
           collected[i].category =
             FirstPoseRule(collected[i].name, collected[i].description)
    /\ processor = "processHarvardHealthBenefits" =>
         \A t \in BucketTexts(collected) :
           /\ Cardinality(BucketsOf(collected, t)) = 1
           /\ Matches(t, MentalWords) /\ Matches(t, PhysicalWords)
                => BucketsOf(collected, t) = {"mental"}
    /\ processor = "processYogaInternationalTips" =>
         \A t \in BucketTexts(collected) :
           LET hits == {i \in DOMAIN TipRules : Matches(t, TipRules[i].words)}
           IN /\ hits # {}
              /\ BucketsOf(collected, t) =
                   {TipRules[CHOOSE i \in hits : \A j \in hits : i <= j].bucket}

\* C16 witness: a pose whose title matches the standing and the seated
\* patterns was put under standing, one that matches backbends and
\* inversions under backbends
C16_Witness ==
  /\ pc = "return"
  /\ processor = "processYogaJournalPoses"
  /\ \E i \in DOMAIN collected :
       /\ collected[i].name = TextOf("Seated Tree")
       /\ collected[i].category = "standing"
  /\ \E i \in DOMAIN collected :
       /\ collected[i].name = TextOf("Bridge Headstand")
       /\ collected[i].category = "backbends"

\* the trimmed texts of the elements of the page that match no keyword of
\* the processor
UnmatchedTexts ==
  {Trim(page[i].text) : i \in
     {j \in DOMAIN page :
        /\ Trim(page[j].text) # <<>>
        /\ IF processor = "processHarvardHealthBenefits"
             THEN /\ page[j].tag = "li"
                  /\ ~Matches(page[j].text, MentalWords)
                  /\ ~Matches(page[j].text, PhysicalWords)
             ELSE /\ ~Matches(page[j].text, BeginnerWords)
                  /\ ~Matches(page[j].text, PropWords)
                  /\ ~Matches(page[j].text, PracticeWords)}}

C18_NamesNormalized ==
  processor \in {"processYogaJournalTypes", "processYogaAllianceStyles",
                 "processYogaJournalPoses"} =>
    \A i \in DOMAIN collected :
      /\ collected[i].name = Trim(collected[i].name)
      /\ Len(collected[i].name) >= 3
      /\ ~Includes(collected[i].name, TextOf("References"))

(***************************************************************************)
(* scripts/cleanup-old-files.js: one run of the script.  The file system   *)
(* is the set of the paths that exist under the working directory.         *)
(***************************************************************************)
\* the number of listed paths that are absent when the script starts
MaxMissing == 1

\* the number of removals that throw
MaxFailures == 1

DRY_RUN == "--dry-run" \in argv

FORCE == "--force" \in argv

DIRECTORIES_TO_REMOVE ==
  <<"_data", "_includes", "admin", "assets", "credits", "css", "guide",
    "js", "videos">>

ESSENTIAL_DIRECTORIES == <<"src", "scripts", "node_modules", "_site">>

FILES_TO_REMOVE == <<"404.njk", "about.njk", "index.njk">>

\* path.join(process.cwd(), '_site', 'index.html')
OutputIndex == "_site/index.html"

\* what npm run build does: it throws, it completes and writes
\* _site/index.html, or it completes and does not write it
BuildOutcomes == {"threw", "generated", "completed"}

\* the file system after npm run build
AfterBuild(outcome) ==
  IF outcome = "generated" THEN files \cup {OutputIndex} ELSE files

\* checkBuildIsWorking: the returned value
CheckBuildIsWorking(outcome) ==
  IF outcome = "threw" THEN FALSE
  ELSE IF OutputIndex \notin AfterBuild(outcome) THEN FALSE
  ELSE TRUE

\* the characters of the answers typed at the prompt
AnswerChars ==
  "yes" :> <<"y", "e", "s">> @@ "YES" :> <<"Y", "E", "S">> @@
  "Yes" :> <<"Y", "e", "s">> @@ "no" :> <<"n", "o">> @@
  "y" :> <<"y">> @@ "" :> <<>> @@ " yes" :> <<" ", "y", "e", "s">>

\* the answers typed at the prompt
Answers == {AnswerChars[a] : a \in DOMAIN AnswerChars}

Given(text) == [defined |-> TRUE, value |-> text]

DeclinedIfNo(text) == ToLowerCase(text) = AnswerChars["no"]

\* answer.toLowerCase() !== 'yes'
Declined(text) == ToLowerCase(text) # AnswerChars["yes"]

RemoveFileIgnoringDryRun(filePath) ==
  IF filePath \notin files THEN "skip" ELSE "remove"

\* removeFile: what is done about the path
RemoveFile(filePath) ==
  IF filePath \notin files THEN "skip"
  ELSE IF DRY_RUN THEN "report"
  ELSE "remove"

\* the working directory and its parent, as paths relative to cwd
RootOrParent == {"", ".", ".."}

RemoveDirectoryUnguarded(dirPath) ==
  IF dirPath \notin files THEN "skip"
  ELSE IF DRY_RUN THEN "report"
  ELSE "remove"

\* removeDirectory: what is done about the path
RemoveDirectory(dirPath) ==
  IF dirPath \in Range(ESSENTIAL_DIRECTORIES) THEN "refuse"
  ELSE IF dirPath \notin files THEN "skip"
  ELSE IF dirPath \in RootOrParent THEN "refuse"
  ELSE IF DRY_RUN THEN "report"
  ELSE "remove"

\* the effect of removeFile and removeDirectory on the file system and on
\* the log: unlinkSync and rm -rf remove the path or throw
Remove(todo, path) ==
  CASE todo = "report" ->
         /\ reported' = Append(reported, path)
         /\ UNCHANGED <<files, removed, failures>>
    [] todo = "remove" ->
         \/ /\ files' = files \ {path}
            /\ removed' = Append(removed, path)
            /\ UNCHANGED <<reported, failures>>
         \/ /\ failures < MaxFailures
            /\ failures' = failures + 1
            /\ UNCHANGED <<files, removed, reported>>
    [] OTHER -> UNCHANGED <<files, removed, reported, failures>>

\* the paths the script is to remove
Listed == Range(DIRECTORIES_TO_REMOVE) \cup Range(FILES_TO_REMOVE)

\* DIRECTORIES_TO_REMOVE with essential directories, the working directory
\* and its parent among its entries
DirectoriesWithEssential ==
  <<"src", ".">> \o DIRECTORIES_TO_REMOVE \o <<"_site", "..">>

\* the file systems the script starts in
InitialFiles ==
  {(Listed \ missing) \cup Range(ESSENTIAL_DIRECTORIES) \cup RootOrParent
     \cup site :
     missing \in {m \in SUBSET Listed : Cardinality(m) <= MaxMissing},
     site \in {{}, {OutputIndex}}}

CleanupInit ==
  /\ pc = "cleanup"
  /\ argv \in SUBSET {"--dry-run", "--force"}
  /\ files \in InitialFiles
  /\ step = 0
  /\ builds = 0
  /\ buildResult = NotChecked
  /\ answer = NoAnswer
  /\ removed = <<>>
  /\ reported = <<>>
  /\ failures = 0
  /\ directories \in {DIRECTORIES_TO_REMOVE, DirectoriesWithEssential}
  /\ exitCode = 0
  /\ IdleExcept({"Clean"})

\* cleanup, lines 140-144: the build is verified
CleanupCheckBuild ==
  /\ pc = "cleanup"
  /\ ~FORCE /\ ~DRY_RUN
  /\ \E outcome \in BuildOutcomes :
       /\ builds' = builds + 1
       /\ files' = AfterBuild(outcome)
       /\ buildResult' = Given(CheckBuildIsWorking(outcome))
       /\ IF ~CheckBuildIsWorking(outcome)
            THEN exitCode' = 1 /\ pc' = "exit"
            ELSE pc' = "prompt" /\ UNCHANGED exitCode
  /\ UNCHANGED <<argv, step, answer, removed, reported, failures,
                 directories>>
  /\ UNCHANGED notClean

\* cleanup, lines 140, 147 and 172-174: no build, no prompt
CleanupUnprompted ==
  /\ pc = "cleanup"
  /\ ~(~FORCE /\ ~DRY_RUN)
  /\ pc' = "directories"
  /\ step' = 1
  /\ UNCHANGED <<argv, files, builds, buildResult, answer, removed,
                 reported, failures, directories, exitCode>>
  /\ UNCHANGED notClean

\* cleanup, lines 163-171: the callback of readline.question
CleanupAnswer ==
  /\ pc = "prompt"
  /\ \E text \in Answers :
       /\ answer' = Given(text)
       /\ IF Declined(text)
            THEN pc' = "exit" /\ exitCode' = 0 /\ UNCHANGED step
            ELSE pc' = "directories" /\ step' = 1 /\ UNCHANGED exitCode
  /\ UNCHANGED <<argv, files, builds, buildResult, removed, reported,
                 failures, directories>>
  /\ UNCHANGED notClean

\* executeCleanup, line 180: removeDirectory of the step-th directory
ExecuteRemoveDirectory ==
  /\ pc = "directories"
  /\ Remove(RemoveDirectory(directories[step]), directories[step])
  /\ IF step < Len(directories)
       THEN step' = step + 1 /\ UNCHANGED pc
       ELSE step' = 1 /\ pc' = "files"
  /\ UNCHANGED <<argv, builds, buildResult, answer, directories, exitCode>>
  /\ UNCHANGED notClean

\* executeCleanup, lines 183-191: removeFile of the step-th file, and the
\* end of the script after the last one
ExecuteRemoveFile ==
  /\ pc = "files"
  /\ Remove(RemoveFile(FILES_TO_REMOVE[step]), FILES_TO_REMOVE[step])
  /\ IF step < Len(FILES_TO_REMOVE)
       THEN step' = step + 1 /\ UNCHANGED pc
       ELSE step' = 0 /\ pc' = "exit"
  /\ UNCHANGED <<argv, builds, buildResult, answer, directories, exitCode>>
  /\ UNCHANGED notClean

CleanupNext ==
  \/ CleanupCheckBuild
  \/ CleanupUnprompted
  \/ CleanupAnswer
  \/ ExecuteRemoveDirectory
  \/ ExecuteRemoveFile

SpecCleanup == CleanupInit /\ [][CleanupNext]_vars

\* the listed paths that exist, directories first
ExistingListed ==
  SelectSeq(DIRECTORIES_TO_REMOVE \o FILES_TO_REMOVE,
            LAMBDA path : path \in files)

\* C19: in a run with --dry-run, with or without --force, nothing is
\* unlinked or removed, no build is run, no step changes the file system,
\* and the run ends having reported the listed paths that exist.
C19_DryRunChangesNothing ==
  /\ []("--dry-run" \in argv =>
          /\ removed = <<>>
          /\ builds = 0
          /\ pc = "exit" => reported = ExistingListed /\ exitCode = 0)
  /\ [][("--dry-run" \in argv) => files' = files]_vars

\* C19 witness: a dry run with --force has ended, and it reported paths
C19_Witness ==
  /\ pc = "exit"
  /\ argv = {"--dry-run", "--force"}
  /\ Len(reported) >= Len(FILES_TO_REMOVE)
  /\ Listed \cap files # {}

\* a run with neither --force nor --dry-run that was started
Guarded == pc # "cleanup" /\ "--force" \notin argv /\ "--dry-run" \notin argv

\* C20 as stated: in a run with neither --force nor --dry-run, something
\* is deleted only after the build check succeeded and the answer was yes;
\* a failed build check ends the run with exit code 1 and nothing deleted,
\* and any answer other than yes ends it with exit code 0 and nothing
\* deleted.
C20_BuildAndYesBeforeDelete ==
  Guarded =>
    /\ removed # <<>> =>
         /\ builds = 1 /\ buildResult = Given(TRUE)
         /\ OutputIndex \in files
         /\ answer = Given(AnswerChars["yes"])
    /\ buildResult = Given(FALSE) =>
         pc = "exit" /\ exitCode = 1 /\ removed = <<>>
    /\ answer.defined /\ answer.value # AnswerChars["yes"] =>
         pc = "exit" /\ exitCode = 0 /\ removed = <<>>

\* C20 amended: as C20, where the answer counts as yes when it is yes in
\* any letter case.
C20_BuildAndAnyCaseYesBeforeDelete ==
  Guarded =>
    /\ removed # <<>> =>
         /\ builds = 1 /\ buildResult = Given(TRUE)
         /\ OutputIndex \in files
         /\ answer.defined
         /\ ToLowerCase(answer.value) = AnswerChars["yes"]
    /\ buildResult = Given(FALSE) =>
         pc = "exit" /\ exitCode = 1 /\ removed = <<>>
    /\ answer.defined /\ ToLowerCase(answer.value) # AnswerChars["yes"] =>
         pc = "exit" /\ exitCode = 0 /\ removed = <<>>

\* C20 witness: after a build check that succeeded and the answer YES, the
\* run has deleted paths
C20_Witness ==
  /\ Guarded
  /\ pc = "exit"
  /\ answer = Given(AnswerChars["YES"])
  /\ removed # <<>>

\* the paths that must never be deleted
Protected == Range(ESSENTIAL_DIRECTORIES) \cup RootOrParent

\* C21: under every flag combination and every answer, no essential
\* directory (src, scripts, node_modules, _site), nor the working directory
\* or its parent, is deleted, and no step passes one of them to rm -rf,
\* whether the command then succeeds or throws.
C21_EssentialNeverDeleted ==
  /\ [](Range(removed) \cap Protected = {})
  /\ [][(pc = "directories" /\ (removed' # removed \/ failures' # failures))
          => directories[step] \notin Protected]_vars

\* C21 witness: a forced run over a list that names src and the working
\* directory has ended; it deleted directories, and src is still there
C21_Witness ==
  /\ pc = "exit"
  /\ "--force" \in argv /\ "--dry-run" \notin argv
  /\ directories = DirectoriesWithEssential
  /\ Len(removed) >= Len(DIRECTORIES_TO_REMOVE)
  /\ Protected \subseteq files

(***************************************************************************)
(* scripts/generate-thumbnails.js: runs of the script over one source      *)
(* directory.  File names are sequences of characters.                     *)
(***************************************************************************)
\* the number of files in the source directory
MaxSourceFiles == 3

\* the number of runs of the script
MaxRuns == 2

\* the characters of the file names and of the extensions
FileChars ==
  "forest.jpg" :> <<"f", "o", "r", "e", "s", "t", ".", "j", "p", "g">> @@
  "forest.png" :> <<"f", "o", "r", "e", "s", "t", ".", "p", "n", "g">> @@
  "ocean.JPG" :> <<"o", "c", "e", "a", "n", ".", "J", "P", "G">> @@
  "notes.txt" :> <<"n", "o", "t", "e", "s", ".", "t", "x", "t">> @@
  "sand.webp" :> <<"s", "a", "n", "d", ".", "w", "e", "b", "p">> @@
  ".png" :> <<".", "p", "n", "g">> @@
  "-thumb.jpg" :> <<"-", "t", "h", "u", "m", "b", ".", "j", "p", "g">> @@
  ".jpg" :> <<".", "j", "p", "g">> @@
  ".jpeg" :> <<".", "j", "p", "e", "g">> @@
  ".webp" :> <<".", "w", "e", "b", "p">>

\* the files a source directory may hold, in the order readdirSync lists
\* them
SourceUniverse ==
  <<FileChars[".png"], FileChars["forest.jpg"], FileChars["forest.png"],
    FileChars["notes.txt"], FileChars["ocean.JPG"], FileChars["sand.webp"]>>

imageExtensions ==
  {FileChars[".jpg"], FileChars[".jpeg"], FileChars[".png"],
   FileChars[".webp"]}

\* the position of the last dot of the name, 0 when it has none
LastDot(file) ==
  LET dots == {i \in DOMAIN file : file[i] = "."}
  IN IF dots = {} THEN 0 ELSE CHOOSE i \in dots : \A j \in dots : j <= i

\* path.extname(file): from the last dot, unless the name starts with it
ExtName(file) ==
  IF LastDot(file) <= 1 THEN <<>>
  ELSE SubSeq(file, LastDot(file), Len(file))

\* path.basename(file, path.extname(file))
BaseName(file) == SubSeq(file, 1, Len(file) - Len(ExtName(file)))

\* the filter of lines 35-38
IsImage(file) == ToLowerCase(ExtName(file)) \in imageExtensions

\* `${fileName}-thumb.jpg`
ThumbnailName(file) == BaseName(file) \o FileChars["-thumb.jpg"]

SkipNever(thumbnailName) == FALSE

\* existingThumbnails.includes(thumbnailName)
Skip(thumbnailName) == thumbnailName \in existingThumbnails

\* the source directories: the files of the universe, at most
\* MaxSourceFiles of them
SourceDirectories ==
  {SelectSeq(SourceUniverse, LAMBDA f : f \in chosen) :
     chosen \in {c \in SUBSET Range(SourceUniverse) :
                   Cardinality(c) \in 1..MaxSourceFiles}}

ThumbsInit ==
  /\ pc = "start"
  /\ sourceFiles \in SourceDirectories
  /\ thumbnails \in SUBSET {ThumbnailName(f) :
                              f \in {g \in Range(sourceFiles) : IsImage(g)}}
  /\ imageFiles = <<>>
  /\ existingThumbnails = {}
  /\ fileIndex = 0
  /\ written = <<>>
  /\ runs = 1
  /\ failed = {}
  /\ IdleExcept({"Thumb"})

\* generateThumbnails, lines 32-45: the two directories are read
ThumbsRead ==
  /\ pc = "start"
  /\ imageFiles' = SelectSeq(sourceFiles, IsImage)
  /\ existingThumbnails' = thumbnails
  /\ IF SelectSeq(sourceFiles, IsImage) = <<>>
       THEN pc' = "done" /\ fileIndex' = 0
       ELSE pc' = "loop" /\ fileIndex' = 1
  /\ UNCHANGED <<sourceFiles, thumbnails, written, runs, failed>>
  /\ UNCHANGED notThumb

\* the position after the body of the loop for the fileIndex-th image
ThumbsAfterFile ==
  IF fileIndex < Len(imageFiles)
    THEN fileIndex' = fileIndex + 1 /\ UNCHANGED pc
    ELSE fileIndex' = 0 /\ pc' = "done"

\* generateThumbnails, lines 48-58: the thumbnail is in the list read
\* before the loop
ThumbsSkip ==
  /\ pc = "loop"
  /\ Skip(ThumbnailName(imageFiles[fileIndex]))
  /\ ThumbsAfterFile
  /\ UNCHANGED <<sourceFiles, thumbnails, imageFiles, existingThumbnails,
                 written, runs, failed>>
  /\ UNCHANGED notThumb

\* generateThumbnails, lines 60-72: sharp writes the thumbnail
ThumbsGenerate ==
  /\ pc = "loop"
  /\ ~Skip(ThumbnailName(imageFiles[fileIndex]))
  /\ thumbnails' = thumbnails \cup {ThumbnailName(imageFiles[fileIndex])}
  /\ written' = Append(written, [run |-> runs,
                                 file |-> ThumbnailName(imageFiles[fileIndex])])
  /\ ThumbsAfterFile
  /\ UNCHANGED <<sourceFiles, imageFiles, existingThumbnails, runs, failed>>
  /\ UNCHANGED notThumb

\* generateThumbnails, lines 63-70 and 79-81: sharp rejects, the error is
\* caught outside the loop
ThumbsError ==
  /\ pc = "loop"
  /\ ~Skip(ThumbnailName(imageFiles[fileIndex]))
  /\ failed' = failed \cup {runs}
  /\ pc' = "done"
  /\ fileIndex' = 0
  /\ UNCHANGED <<sourceFiles, thumbnails, imageFiles, existingThumbnails,
                 written, runs>>
  /\ UNCHANGED notThumb

\* the script is run again
ThumbsRerun ==
  /\ pc = "done"
  /\ runs < MaxRuns
  /\ runs' = runs + 1
  /\ pc' = "start"
  /\ imageFiles' = <<>>
  /\ existingThumbnails' = {}
  /\ UNCHANGED <<sourceFiles, thumbnails, fileIndex, written, failed>>
  /\ UNCHANGED notThumb

ThumbsNext ==
  \/ ThumbsRead
  \/ ThumbsSkip
  \/ ThumbsGenerate
  \/ ThumbsError
  \/ ThumbsRerun

SpecThumbs == ThumbsInit /\ [][ThumbsNext]_vars

\* the thumbnails toFile wrote in the run
WrittenIn(run) == SelectSeq(written, LAMBDA w : w.run = run)

\* C22: a thumbnail is written only when thumbnailsDir does not hold it,
\* hence at most once; a run that ends without an error leaves every source
\* image with its thumbnail; a run that follows a run without an error
\* writes nothing.
C22_ThumbnailsOnlyForMissing ==
  /\ [](\A i, j \in DOMAIN written :
          written[i].file = written[j].file => i = j)
  /\ []((pc = "done" /\ runs \notin failed) =>
          \A f \in Range(imageFiles) : ThumbnailName(f) \in thumbnails)
  /\ [](\A run \in 2..runs :
          (run - 1) \notin failed => WrittenIn(run) = <<>>)
  /\ [][written' # written =>
          written'[Len(written')].file \notin thumbnails]_vars

(***************************************************************************)
(* The theme switcher (unnamed/part_001, lines 294-559): applyTheme and    *)
(* the callbacks that run after it.                                        *)
(***************************************************************************)
\* the number of calls of applyTheme
MaxApplies == 2

\* the ids of THEMES
THEMES == <<"forrest", "ocean", "beach", "water", "lights", "mountain">>

\* ids that are not in THEMES: the default of getStoredTheme, and a value
\* stored by an earlier version of the site
StaleThemes == {"forest-night", "sunset"}

\* getStoredTheme: a || b on strings and undefined
Or(a, b) == IF a = Undefined \/ a = "" THEN b ELSE a

\* getStoredTheme
GetStoredTheme == Or(stored, Or(defaultTheme, "forest-night"))

ValidateNothing(themeId) == themeId

\* applyTheme, lines 380-382
Validate(themeId) ==
  IF \E i \in DOMAIN THEMES : THEMES[i] = themeId THEN themeId
  ELSE "forrest"

\* applyTheme: the image is requested, the id is stored and the event is
\* dispatched
ApplyTheme(themeId) ==
  /\ Len(requested) < MaxApplies
  /\ requested' = Append(requested, themeId)
  /\ pending' = Append(pending, Validate(themeId))
  /\ stored' = Validate(themeId)
  /\ events' = Append(events, Validate(themeId))
  /\ UNCHANGED <<defaultTheme, bodyTheme, loadErrors>>

ThemeInit ==
  /\ pc = "loading"
  /\ stored \in {Undefined, ""} \cup Range(THEMES) \cup StaleThemes
  /\ defaultTheme \in {Undefined, "ocean", "sunset"}
  /\ bodyTheme = Undefined
  /\ pending = <<>>
  /\ requested = <<>>
  /\ events = <<>>
  /\ loadErrors = 0
  /\ IdleExcept({"Theme"})

\* the DOMContentLoaded listener: initTheme
ThemeDomContentLoaded ==
  /\ pc = "loading"
  /\ ApplyTheme(GetStoredTheme)
  /\ pc' = "loaded"
  /\ UNCHANGED notTheme

\* the click listener of a theme option
ThemeOptionClick ==
  /\ pc = "loaded"
  /\ \E i \in DOMAIN THEMES :
       /\ GetStoredTheme # THEMES[i]
       /\ ApplyTheme(THEMES[i])
  /\ UNCHANGED pc
  /\ UNCHANGED notTheme

\* window.yogaThemes.apply called by another script
ThemeApplyCall ==
  /\ pc = "loaded"
  /\ \E themeId \in Range(THEMES) \cup StaleThemes : ApplyTheme(themeId)
  /\ UNCHANGED pc
  /\ UNCHANGED notTheme

\* the sequence without its i-th element
Without(s, i) == SubSeq(s, 1, i - 1) \o SubSeq(s, i + 1, Len(s))

\* img.onload of one of the pending images
ThemeImageLoaded ==
  /\ \E i \in DOMAIN pending :
       /\ bodyTheme' = pending[i]
       /\ pending' = Without(pending, i)
  /\ UNCHANGED <<pc, stored, defaultTheme, requested, events, loadErrors>>
  /\ UNCHANGED notTheme

\* one of the pending images fails to load: img has no onerror
ThemeImageFailed ==
  /\ \E i \in DOMAIN pending : pending' = Without(pending, i)
  /\ loadErrors' = loadErrors + 1
  /\ UNCHANGED <<pc, stored, defaultTheme, bodyTheme, requested, events>>
  /\ UNCHANGED notTheme

ThemeNext ==
  \/ ThemeDomContentLoaded
  \/ ThemeOptionClick
  \/ ThemeApplyCall
  \/ ThemeImageLoaded
  \/ ThemeImageFailed

SpecTheme == ThemeInit /\ [][ThemeNext]_vars

\* C23: whenever applyTheme has been called, every image load has completed
\* and none is pending, the body's data-theme is the theme stored in
\* localStorage.
C23_BodyThemeIsStoredTheme ==
  (requested # <<>> /\ pending = <<>> /\ loadErrors = 0)
    => bodyTheme = stored

\* C24: once applyTheme has been called, the stored theme, the theme of
\* every themeChanged event and the body's data-theme, when it is set, are
\* ids of THEMES, and a call with an unknown id stores and announces
\* forrest.
C24_ThemeInClosedSet ==
  requested # <<>> =>
    /\ stored \in Range(THEMES)
    /\ \A i \in DOMAIN events :
         /\ events[i] \in Range(THEMES)
         /\ requested[i] \notin Range(THEMES) => events[i] = "forrest"
    /\ bodyTheme # Undefined => bodyTheme \in Range(THEMES)
    /\ requested[Len(requested)] \notin Range(THEMES) => stored = "forrest"

\* C24 witness: the first call was made with the default forest-night, its
\* image has loaded, and forrest is stored and set on the body
C24_Witness ==
  /\ requested = <<"forest-night">>
  /\ pending = <<>>
  /\ stored = "forrest"
  /\ bodyTheme = "forrest"
  /\ events = <<"forrest">>

(***************************************************************************)
(* scrapeYogaInfo (src/js/video-player.js, lines 250-343): one run of the  *)
(* scraper over SOURCES, followed by the loading loop of the updater.      *)
(***************************************************************************)
\* SOURCES: the categories in the order of Object.entries, each with the
\* names of its sources
SOURCES ==
  << [category |-> "yogaTypes",
      sources |-> <<"Yoga Journal - Types of Yoga", "Yoga Alliance - Styles">>],
     [category |-> "poses", sources |-> <<"Yoga Journal - Poses">>],
     [category |-> "benefits",
      sources |-> <<"Harvard Health - Yoga Benefits">>],
     [category |-> "tips",
      sources |-> <<"Yoga International - Practice Tips">>] >>

\* `${category}.json` and `${section}.json`
JsonName(name) == name \o ".json"

\* what scrapeSource does when called: it returns data, returns null, or
\* throws
SourceOutcomes == {"data", "null", "throws"}

\* the entry pushed for a source that returned data
ResultEntry(name) == [source |-> name, data |-> "data of " \o name]

\* the content of OUTPUT_DIR before the run: nothing, or the files of an
\* earlier run of the scraper
EarlierOutput ==
  [name \in {JsonName(SOURCES[i].category) : i \in DOMAIN SOURCES} |->
     <<[source |-> "earlier run", data |-> "earlier data"]>>]

InfoInit ==
  /\ pc = "launch"
  /\ browser = "none"
  /\ categoryIndex = 1
  /\ sourceIndex = 1
  /\ results = <<>>
  /\ attempts = <<>>
  /\ outputFiles \in {<<>>, EarlierOutput}
  /\ saved = <<>>
  /\ writeError = FALSE
  /\ IdleExcept({"Info"})

\* scrapeYogaInfo, lines 296-299: puppeteer.launch resolves or rejects
InfoLaunch ==
  /\ pc = "launch"
  /\ \/ browser' = "open" /\ pc' = "source"
     \/ pc' = "rejected" /\ UNCHANGED browser
  /\ UNCHANGED <<categoryIndex, sourceIndex, results, attempts, outputFiles,
                 saved, writeError>>
  /\ UNCHANGED notInfo

PushedAlways(outcome) == TRUE

\* if (data) of line 314, in the try of lines 311-325
Pushed(outcome) == outcome = "data"

\* scrapeYogaInfo, lines 308-326: one iteration of the loop over sources
InfoScrapeSource ==
  /\ pc = "source"
  /\ LET entry == SOURCES[categoryIndex]
         name == entry.sources[sourceIndex]
     IN /\ \E outcome \in SourceOutcomes :
             /\ attempts' = Append(attempts, [category |-> entry.category,
                                              source |-> name,
                                              outcome |-> outcome])
             /\ results' = IF Pushed(outcome)
                             THEN Append(results, ResultEntry(name))
                             ELSE results
        /\ IF sourceIndex < Len(entry.sources)
             THEN sourceIndex' = sourceIndex + 1 /\ UNCHANGED pc
             ELSE sourceIndex' = 1 /\ pc' = "save"
  /\ UNCHANGED <<browser, categoryIndex, outputFiles, saved, writeError>>
  /\ UNCHANGED notInfo

\* the position after the body of the loop over the categories
AfterCategory ==
  /\ results' = <<>>
  /\ IF categoryIndex < Len(SOURCES)
       THEN categoryIndex' = categoryIndex + 1 /\ pc' = "source"
       ELSE categoryIndex' = 1 /\ pc' = "finally"

\* scrapeYogaInfo, lines 329-335: the results of the category are saved,
\* or fs.writeFileSync throws and the loops are left
InfoSave ==
  /\ pc = "save"
  /\ IF results # <<>>
       THEN \/ /\ outputFiles' =
                    (JsonName(SOURCES[categoryIndex].category) :> results)
                      @@ outputFiles
               /\ saved' =
                    Append(saved, JsonName(SOURCES[categoryIndex].category))
               /\ AfterCategory
               /\ UNCHANGED writeError
            \/ /\ writeError' = TRUE
               /\ pc' = "finally"
               /\ UNCHANGED <<outputFiles, saved, categoryIndex, results>>
       ELSE /\ AfterCategory
            /\ UNCHANGED <<outputFiles, saved, writeError>>
  /\ UNCHANGED <<browser, sourceIndex, attempts>>
  /\ UNCHANGED notInfo

\* scrapeYogaInfo, lines 337-342: finally, browser.close()
InfoClose ==
  /\ pc = "finally"
  /\ browser' = "closed"
  /\ pc' = IF writeError THEN "rejected" ELSE "scraped"
  /\ UNCHANGED <<categoryIndex, sourceIndex, results, attempts, outputFiles,
                 saved, writeError>>
  /\ UNCHANGED notInfo

\* what the updater finds at SCRAPED_DIR/<section>.json, the directory the
\* scraper wrote to
FileFor(sec) ==
  IF JsonName(sec) \in DOMAIN outputFiles
    THEN JsonFile(outputFiles[JsonName(sec)])
    ELSE AbsentFile

\* update-guide-content.js is run after the scraper
InfoUpdaterStarts ==
  /\ pc = "scraped"
  /\ pc' = "load"
  /\ configured' = SECTIONS
  /\ dataFiles' = [sec \in Range(SECTIONS) |-> FileFor(sec)]
  /\ scrapedData' = [sec \in Range(SECTIONS) |-> NotLoaded]
  /\ includes' = [sec \in Range(SECTIONS) |-> NoInclude]
  /\ index' = 1
  /\ UNCHANGED <<generated, errors, templateRuns>>
  /\ UNCHANGED <<genVars, escVars, callVars, scrapeVars, cleanVars, thumbVars,
                 themeVars, infoVars, sourceVars, playerVars, titleVars>>

InfoNext ==
  \/ InfoLaunch
  \/ InfoScrapeSource
  \/ InfoSave
  \/ InfoClose
  \/ InfoUpdaterStarts
  \/ RunLoad

SpecInfo == InfoInit /\ [][InfoNext]_vars

\* the outcomes of the scrapeSource calls for the category
OutcomesOf(category) ==
  SelectSeq(attempts, LAMBDA a : a.category = category)

\* C25: when every source yielded data and the scraper has ended, the
\* updater that runs next finds a data file for each of its four sections.
C25_UpdaterFindsEveryFile ==
  (/\ pc \in {"load", "generate"}
   /\ \A i \in DOMAIN attempts : attempts[i].outcome = "data")
    => \A sec \in Range(SECTIONS) : dataFiles[sec].kind = "json"

\* the entries of the sources of the category that returned data, in the
\* order of the calls
Successful(category) ==
  LET calls == SelectSeq(OutcomesOf(category), LAMBDA a : a.outcome = "data")
  IN [i \in DOMAIN calls |-> ResultEntry(calls[i].source)]

RECURSIVE Configured(_)
\* every (category, source) of SOURCES in configuration order
Configured(i) ==
  IF i = 0 THEN <<>>
  ELSE Configured(i - 1) \o
         [j \in DOMAIN SOURCES[i].sources |->
            [category |-> SOURCES[i].category, source |-> SOURCES[i].sources[j]]]

\* the scraper has ended
Ended == pc \in {"scraped", "rejected", "load", "generate"}

\* C27: when the scraper has ended and no write threw, scrapeSource was
\* called for every source of every category in configuration order,
\* whatever the earlier calls did; the file of a category was written if
\* and only if one of its sources returned data, and it holds one entry
\* per source that returned data, in configuration order; and on every
\* path, a browser that was launched is closed when the scraper has ended.
C27_SourceIsolation ==
  Ended =>
    /\ browser # "none" => browser = "closed"
    /\ (browser # "none" /\ ~writeError) =>
         /\ [i \in DOMAIN attempts |->
               [category |-> attempts[i].category,
                source |-> attempts[i].source]] = Configured(Len(SOURCES))
         /\ \A i \in DOMAIN SOURCES :
              LET category == SOURCES[i].category
              IN /\ JsonName(category) \in Range(saved)
                      <=> Successful(category) # <<>>
                 /\ JsonName(category) \in Range(saved)
                      => outputFiles[JsonName(category)] = Successful(category)

\* C27 witness: the first source threw and the second returned data, the
\* only source of poses returned null: yogaTypes.json holds one entry,
\* poses.json was not written, the later categories were saved and the
\* browser is closed
C27_Witness ==
  /\ pc = "scraped"
  /\ browser = "closed"
  /\ attempts[1].outcome = "throws"
  /\ attempts[2].outcome = "data"
  /\ attempts[3].outcome = "null"
  /\ saved = <<"yogaTypes.json", "benefits.json", "tips.json">>
  /\ Len(outputFiles["yogaTypes.json"]) = 1


(***************************************************************************)
(* updateGuideContent run on a types.json whose records lack a field       *)
(* generateYogaTypesContent reads.                                         *)
(***************************************************************************)
\* a record without a name, alone in the data
NamelessSources ==
  <<[source |-> "YJ",
     data |-> ArrayData(<<[description |-> "a<b", benefits |-> <<"x&y">>,
                           suitable_for |-> <<>>]>>)]>>

\* a record without a name after a record that has one
NamelessSecondSources ==
  <<[source |-> "YJ",
     data |-> ArrayData(<<[name |-> Yin, description |-> "a<b",
                           benefits |-> <<"x&y">>, suitable_for |-> <<>>],
                          [description |-> "a<b", benefits |-> <<"x&y">>,
                           suitable_for |-> <<>>]>>)]>>

\* a standard type without a benefits array
NoBenefitsSources ==
  <<[source |-> "YJ",
     data |-> ArrayData(<<[name |-> Yin, description |-> "a<b",
                           suitable_for |-> <<>>]>>)]>>

ThrowingTypes == {NamelessSources, NamelessSecondSources, NoBenefitsSources}

RunThrowingInit ==
  /\ pc = "load"
  /\ configured = SECTIONS
  /\ dataFiles \in [Range(SECTIONS) ->
                      UNION {DataFileStates(s) : s \in Range(SECTIONS)}
                        \cup {JsonFile(t) : t \in ThrowingTypes}]
  /\ dataFiles["types"] \in
       {JsonFile(t) : t \in ThrowingTypes} \cup {JsonFile(SomeSources("types"))}
  /\ \A s \in Range(SECTIONS) \ {"types"} : dataFiles[s] \in DataFileStates(s)
  /\ scrapedData = [s \in Range(SECTIONS) |-> NotLoaded]
  /\ \E before \in {NoInclude, OldInclude} :
       includes = [s \in Range(SECTIONS) |-> before]
  /\ index = 1
  /\ generated = {}
  /\ errors = <<>>
  /\ templateRuns = 0
  /\ IdleExcept({"Run"})

SpecRunThrowing == RunThrowingInit /\ [][RunNext]_vars

\* generating the content of the section from its data file throws
GenerationThrows(sec) ==
  /\ ~MissingData(dataFiles[sec])
  /\ GenerateSectionContent(sec, dataFiles[sec].value).threw

\* C26: when generating the content of a section throws, the include file
\* of the section is never written in the run (it stays absent, or as the
\* run found it), the error does not leave the loop and is logged once the
\* section has been tried, every other section that has data is generated
\* and written, and updateGuideTemplate runs.
C26_SectionFailureIsolated ==
  /\ RunGoesOn
  /\ pc = "load" =>
       \A s \in Range(SECTIONS) : includes[s] \in {NoInclude, OldInclude}
  /\ pc # "load" =>
       \A s \in Range(SECTIONS) :
         GenerationThrows(s) =>
           /\ includes[s] \in {NoInclude, OldInclude}
           /\ s \in generated =>
                GenerateSectionContent(s, dataFiles[s].value).message
                  \in Range(errors)
  /\ pc = "done" =>
       /\ templateRuns = 1
       /\ \A s \in Range(SECTIONS) :
            GenerationThrows(s) =>
              /\ s \in generated
              /\ \A t \in Range(SECTIONS) \ {s} :
                   (~MissingData(dataFiles[t]) /\ ~GenerationThrows(t))
                     => WrittenFromData(t)

\* C26 witness: a run has ended in which the generation of types threw on a
\* record without a name, the old types.html was kept, and the three later
\* sections were written
C26_Witness ==
  /\ pc = "done"
  /\ dataFiles["types"] = JsonFile(NamelessSecondSources)
  /\ errors = <<ReadToLowerCase>>
  /\ includes["types"] = OldInclude
  /\ \A t \in {"poses", "benefits", "tips"} : WrittenFromData(t)
  /\ templateRuns = 1

(***************************************************************************)
(* scrapeSource (src/js/video-player.js): where the content of the page    *)
(* of one source comes from.  The source is scraped MaxCalls times, each   *)
(* call finding the cache file as the call before left it.                 *)
(***************************************************************************)
\* the number of calls of scrapeSource for the source
MaxCalls == 2

\* fs.existsSync(cacheFile) is false
NoCacheFile == ""

\* the contents of a page: of the cache file left by an earlier run, of the
\* response to axios.get, of page.content()
OldContent == "old"
AxiosContent == "response.data"
PageContent == "page.content()"

\* process.env.USE_CACHE; the empty string for a variable that is not set
UseCacheValues == {"true", "TRUE", "false", ""}

\* one operation of the call and whether it succeeded
Did(op, ok) == [op |-> op, ok |-> ok]

\* the cache is read whenever the file exists
UseCachedIfExists(file, env) == file # NoCacheFile

\* fs.existsSync(cacheFile) && process.env.USE_CACHE === 'true'
UseCached(file, env) == file # NoCacheFile /\ env = "true"

SourceInit ==
  /\ pc = "check"
  /\ cacheFile \in {NoCacheFile, OldContent}
  /\ cacheBefore = cacheFile
  /\ useCache \in UseCacheValues
  /\ fetched = ""
  /\ tab = "none"
  /\ trace = <<>>
  /\ callNo = 1
  /\ returned = ""
  /\ IdleExcept({"Source"})

\* if (fs.existsSync(cacheFile) && process.env.USE_CACHE === 'true')
SourceCheck ==
  /\ pc = "check"
  /\ IF UseCached(cacheFile, useCache)
       THEN /\ fetched' = cacheFile
            /\ trace' = Append(trace, Did("readFileSync", TRUE))
            /\ pc' = "parse"
       ELSE /\ UNCHANGED <<fetched, trace>>
            /\ pc' = "axios"
  /\ UNCHANGED <<cacheFile, cacheBefore, useCache, tab, callNo, returned>>
  /\ UNCHANGED notSource

\* const response = await axios.get(source.url, ...); content = response.data
SourceAxios ==
  /\ pc = "axios"
  /\ \E ok \in BOOLEAN :
       /\ trace' = Append(trace, Did("axios.get", ok))
       /\ fetched' = IF ok THEN AxiosContent ELSE fetched
       /\ pc' = IF ok THEN "save" ELSE "newPage"
  /\ UNCHANGED <<cacheFile, cacheBefore, useCache, tab, callNo, returned>>
  /\ UNCHANGED notSource

\* const page = await browser.newPage(); await page.setUserAgent(...): the
\* page is opened, or newPage rejects, or setUserAgent rejects
SourceNewPage ==
  /\ pc = "newPage"
  /\ \E result \in {"opened", "newPage rejected", "setUserAgent rejected"} :
       /\ trace' = Append(trace, Did("newPage", result # "newPage rejected"))
       /\ tab' = IF result = "newPage rejected" THEN tab ELSE "open"
       /\ pc' = IF result = "opened" THEN "goto" ELSE "rejected"
  /\ UNCHANGED <<cacheFile, cacheBefore, useCache, fetched, callNo, returned>>
  /\ UNCHANGED notSource

\* try { await page.goto(...); ...; content = await page.content() }
SourceGoto ==
  /\ pc = "goto"
  /\ \E ok \in BOOLEAN :
       /\ trace' = Append(trace, Did("goto", ok))
       /\ fetched' = IF ok THEN PageContent ELSE fetched
  /\ pc' = "close"
  /\ UNCHANGED <<cacheFile, cacheBefore, useCache, tab, callNo, returned>>
  /\ UNCHANGED notSource

\* finally { await page.close() }; the error of the try block goes on
SourceClose ==
  /\ pc = "close"
  /\ tab' = "closed"
  /\ trace' = Append(trace, Did("close", TRUE))
  /\ pc' = IF trace[Len(trace)].ok THEN "save" ELSE "rejected"
  /\ UNCHANGED <<cacheFile, cacheBefore, useCache, fetched, callNo, returned>>
  /\ UNCHANGED notSource

\* fs.writeFileSync(cacheFile, content)
SourceSave ==
  /\ pc = "save"
  /\ \E ok \in BOOLEAN :
       /\ trace' = Append(trace, Did("writeFileSync", ok))
       /\ cacheFile' = IF ok THEN fetched ELSE cacheFile
       /\ pc' = IF ok THEN "parse" ELSE "rejected"
  /\ UNCHANGED <<cacheBefore, useCache, fetched, tab, callNo, returned>>
  /\ UNCHANGED notSource

\* const $ = cheerio.load(content); ...; return null or the processed data
SourceParse ==
  /\ pc = "parse"
  /\ trace' = Append(trace, Did("cheerio.load", TRUE))
  /\ returned' \in {"null", "data"}
  /\ pc' = "returned"
  /\ UNCHANGED <<cacheFile, cacheBefore, useCache, fetched, tab, callNo>>
  /\ UNCHANGED notSource

\* the source is scraped again, by a later run of the script
SourceAgain ==
  /\ pc \in {"returned", "rejected"}
  /\ callNo < MaxCalls
  /\ callNo' = callNo + 1
  /\ cacheBefore' = cacheFile
  /\ useCache' \in UseCacheValues
  /\ fetched' = ""
  /\ tab' = "none"
  /\ trace' = <<>>
  /\ returned' = ""
  /\ pc' = "check"
  /\ UNCHANGED cacheFile
  /\ UNCHANGED notSource

SourceNext ==
  \/ SourceCheck \/ SourceAxios \/ SourceNewPage \/ SourceGoto
  \/ SourceClose \/ SourceSave \/ SourceParse \/ SourceAgain

SpecSource == SourceInit /\ [][SourceNext]_vars

\* the positions of an operation in the trace of the call
Positions(op) == {i \in DOMAIN trace : trace[i].op = op}

Done(op) == Positions(op) # {}

C28_WitnessFetched ==
  /\ pc = "returned"
  /\ useCache = "true"
  /\ cacheBefore = NoCacheFile
  /\ cacheFile = PageContent
  /\ tab = "closed"
  /\ [i \in DOMAIN trace |-> trace[i].op] =
       <<"axios.get", "newPage", "goto", "close", "writeFileSync", "cheerio.load">>

(***************************************************************************)
(* The video player (src/js/video-player.js, lines 1-211): the page after  *)
(* the script has run, the events of the page and of the YouTube API, and  *)
(* the clicks and key presses of the user.                                 *)
(***************************************************************************)
\* the number of clicks and key presses of the user
MaxUserEvents == 2

Controls == {"play-pause", "rewind-15", "forward-15", "fullscreen", "video-container"}

\* e.code of the keys pressed: the four keys of the handler and another one
KeyCodes == {"Space", "ArrowLeft", "ArrowRight", "KeyF", "KeyA"}

\* the player methods of the play/pause handlers
PlayPauseCalls(isPlaying) ==
  <<"getPlayerState", IF isPlaying THEN "pauseVideo" ELSE "playVideo">>

\* the player methods called by the click listener of a control
ClickCalls(control, isPlaying) ==
  CASE control \in {"play-pause", "video-container"} -> PlayPauseCalls(isPlaying)
    [] control = "rewind-15" -> <<"getCurrentTime", "seekTo">>
    [] control = "forward-15" -> <<"getCurrentTime", "getDuration", "seekTo">>
    [] control = "fullscreen" -> <<"getIframe">>

\* the player methods called by the keydown listener for a key
KeyCalls(code, isPlaying) ==
  CASE code = "Space" -> PlayPauseCalls(isPlaying)
    [] code = "ArrowLeft" -> <<"getCurrentTime", "seekTo">>
    [] code = "ArrowRight" -> <<"getCurrentTime", "getDuration", "seekTo">>
    [] code = "KeyF" -> <<"getIframe">>
    [] OTHER -> <<>>

\* one invocation of a player method, by a click or a key press, and whether
\* onReady had fired
Invocation(method, by) == [method |-> method, by |-> by, ready |-> playerReady]

\* the state of the player after the calls
PlayingAfter(methods) ==
  IF ~playerReady THEN playing
  ELSE IF "playVideo" \in Range(methods) THEN TRUE
  ELSE IF "pauseVideo" \in Range(methods) THEN FALSE
  ELSE playing

\* a handler that calls the methods on players.mainPlayer: on a player that
\* is ready every call is made; on a player that is not, the first call is
\* made and the handler either ends there with a TypeError or goes on
HandlerRuns(methods, by) ==
  /\ \E made \in {methods} \cup
         (IF playerReady \/ methods = <<>> THEN {} ELSE {<<methods[1]>>}) :
       invoked' = invoked \o [i \in DOMAIN made |-> Invocation(made[i], by)]
  /\ playing' = PlayingAfter(methods)

PlayerInit ==
  /\ pc = "page"
  /\ container \in BOOLEAN
  /\ api \in {"absent", "loaded"}
  /\ domLoaded = FALSE
  /\ mainPlayer = "undefined"
  /\ playerReady = FALSE
  /\ listeners = {}
  /\ playing = FALSE
  /\ invoked = <<>>
  /\ userEvents = 0
  /\ IdleExcept({"Player"})

\* initializePlayer(): players.mainPlayer = new YT.Player('player', ...)
InitializePlayer ==
  mainPlayer' = IF container THEN "created" ELSE mainPlayer

\* DOMContentLoaded: loadYouTubeAPI()
PlayerDomContentLoaded ==
  /\ ~domLoaded
  /\ domLoaded' = TRUE
  /\ IF api = "loaded"
       THEN InitializePlayer /\ UNCHANGED api
       ELSE api' = "loading" /\ UNCHANGED mainPlayer
  /\ UNCHANGED <<pc, container, playerReady, listeners, playing, invoked,
                 userEvents>>
  /\ UNCHANGED notPlayer

\* the script of the API has loaded: window.onYouTubeIframeAPIReady()
PlayerApiReady ==
  /\ api = "loading"
  /\ api' = "loaded"
  /\ InitializePlayer
  /\ UNCHANGED <<pc, container, domLoaded, playerReady, listeners, playing,
                 invoked, userEvents>>
  /\ UNCHANGED notPlayer

\* onPlayerReady(event): setupCustomControls()
PlayerOnReady ==
  /\ mainPlayer = "created"
  /\ ~playerReady
  /\ playerReady' = TRUE
  /\ listeners' = Controls
  /\ UNCHANGED <<pc, container, api, domLoaded, mainPlayer, playing, invoked,
                 userEvents>>
  /\ UNCHANGED notPlayer

\* a click on a control: its listener, if it has one
PlayerClick ==
  /\ userEvents < MaxUserEvents
  /\ userEvents' = userEvents + 1
  /\ \E control \in Controls :
       IF control \in listeners /\ mainPlayer # "undefined"
         THEN HandlerRuns(ClickCalls(control, playing), "click")
         ELSE UNCHANGED <<invoked, playing>>
  /\ UNCHANGED <<pc, container, api, domLoaded, mainPlayer, playerReady,
                 listeners>>
  /\ UNCHANGED notPlayer

\* document.addEventListener('keydown', ...): the listener is added when
\* the script runs
PlayerKeyDown ==
  /\ userEvents < MaxUserEvents
  /\ userEvents' = userEvents + 1
  /\ \E code \in KeyCodes :
       IF mainPlayer # "undefined"
         THEN HandlerRuns(KeyCalls(code, playing), "keydown")
         ELSE UNCHANGED <<invoked, playing>>
  /\ UNCHANGED <<pc, container, api, domLoaded, mainPlayer, playerReady,
                 listeners>>
  /\ UNCHANGED notPlayer

PlayerNext ==
  \/ PlayerDomContentLoaded \/ PlayerApiReady \/ PlayerOnReady
  \/ PlayerClick \/ PlayerKeyDown

SpecPlayer == PlayerInit /\ [][PlayerNext]_vars

\* C29: no player method is invoked before the onReady event of the player
\* has fired.
C29_NoCallBeforeReady ==
  \A i \in DOMAIN invoked : invoked[i].ready

\* the click listeners call the player after onReady only
ClickCallsAfterReady ==
  \A i \in DOMAIN invoked : invoked[i].by = "click" => invoked[i].ready

(***************************************************************************)
(* extractBenefitTitle and extractTipTitle called on the body of a benefit *)
(* or of a tip: every short text over a few characters, and some texts in  *)
(* which a key phrase matches.                                             *)
(***************************************************************************)
\* the length of the bodies made of BodyChars
MaxBodyLen == 4

BodyChars == {"a", "t", "o", " ", "."}

\* bodies with a key phrase of extractBenefitTitle or of extractTipTitle
PhraseBodies ==
  { <<"b","e","t","t","e","r"," ","a",".">>,
    <<"I","m","p","r","o","v","e","s"," ","a"," ","t","o",".">>,
    <<"b","e","t","t","e","r"," "," ",".">>,
    <<"a"," ","a","n","d"," ","a">>,
    <<" "," ","t","h","e"," ","a">>,
    CharsOf("Focus on your breath throughout your practice.") }

Bodies ==
  UNION {[1..n -> BodyChars] : n \in 1..MaxBodyLen} \cup PhraseBodies

\* text.match(...) of extractBenefitTitle finds a key phrase
BenefitPhraseFound(text) ==
  \E p \in DOMAIN text : \E v \in DOMAIN BenefitVerbs :
    BenefitGroupStart(text, p, BenefitVerbs[v]) # 0

\* text.match(...) of extractTipTitle finds a key phrase
TipPhraseFound(text) ==
  \E k \in 1..(Len(text) - 1) :
    /\ \A i \in 1..k : text[i] \in ClassChars
    /\ text[k + 1] \in SpaceChars
    /\ \E w \in TipStopWords : WordAt(text, k + 2, w)

TitleInit ==
  /\ pc = "body"
  /\ bodyText \in Bodies
  /\ titleOf = ""
  /\ cardTitle = <<>>
  /\ IdleExcept({"Title"})

\* const title = extractBenefitTitle(benefit)
TitleOfBenefit ==
  /\ pc = "body"
  /\ titleOf' = "benefit"
  /\ cardTitle' = ExtractBenefitTitle(bodyText)
  /\ pc' = "titled"
  /\ UNCHANGED bodyText
  /\ UNCHANGED notTitle

\* const title = extractTipTitle(tip)
TitleOfTip ==
  /\ pc = "body"
  /\ titleOf' = "tip"
  /\ cardTitle' = ExtractTipTitle(bodyText)
  /\ pc' = "titled"
  /\ UNCHANGED bodyText
  /\ UNCHANGED notTitle

TitleNext == TitleOfBenefit \/ TitleOfTip

SpecTitle == TitleInit /\ [][TitleNext]_vars

\* the pattern of the function called matched in the body
PhraseFound ==
  IF titleOf = "benefit" THEN BenefitPhraseFound(bodyText)
  ELSE TipPhraseFound(bodyText)

\* C30: the title extracted from a non-empty body is not empty, and when no
\* key phrase matches it is the first three space-separated words of the
\* body with the first letter in upper case.
C30_TitleNeverEmpty ==
  (pc = "titled" /\ bodyText # <<>>) =>
    /\ cardTitle # <<>>
    /\ ~PhraseFound =>
         cardTitle = CapitalizeFirstLetter(FirstThreeWords(bodyText))

\* the title is empty
C30_EmptyTitle == pc = "titled" /\ cardTitle = <<>>

\* without a key phrase the title is the first three words, capitalized,
\* without their final dot
FallbackTitle ==
  (pc = "titled" /\ ~PhraseFound) =>
    cardTitle = CapitalizeFirstLetter(RemoveFinalDot(FirstThreeWords(bodyText)))

====
